---- MODULE Spec2Model ----
(***************************************************************************)
(* Trial sequencing and response collection of the eyewitness study:       *)
(* EyewitnessBlock (the trial sequencer), EyewitnessTable (the ranking     *)
(* state machine for the 'rank' and 'consec' modalities) and DNDTable (the *)
(* drag-and-drop modality), as written in src/src/App.tsx and in           *)
(* src/unnamed/part_001.                                                   *)
(*                                                                         *)
(* React runs the updates queued by a click handler, the render and the    *)
(* effects of that render before it handles the next input event.  A       *)
(* handler is one action; the effects a render leaves to run are separate  *)
(* steps (tableEffectPending, blockEffectPending) during which no input    *)
(* is handled.                                                             *)
(*                                                                         *)
(* Spec runs the block and its tables.  SpecLoad runs loadAllStimuli and   *)
(* the scheduling of the trials (also for src/unnamed/part_000), SpecScript*)
(* a participant who clicks by a fixed script, SpecExport the export       *)
(* processJsonToCSVs on the data of finished sessions, SpecParse parseCSV   *)
(* on sample texts, SpecFetch the fetches of loadAllStimuli, SpecConfirm   *)
(* the tables with confirmNeeded, Spec000 the block of src/unnamed/part_000.*)
(***************************************************************************)
EXTENDS Integers, Sequences, FiniteSets, TLC

\* largest number of options of a stimulus
MaxOptions == 2
\* last value of the clock now() reads
MaxClock == 2

\* the two builds: App.tsx schedules rank + consec, part_001 consec + dnd
Variants == {"App", "part_001"}

VARIABLES
    variant,            \* which build runs
    clock,              \* now()
    stimuli,            \* EyewitnessBlock prop: the scheduled trial list
    stimulusCounter,    \* EyewitnessBlock state: zero-based cursor
    blockData,          \* EyewitnessBlock state `data`: accumulated results
    blockMounted,       \* the timeline still shows EyewitnessBlock
    blockEffectPending, \* EyewitnessBlock's effect has to run
    nextCalls,          \* payloads the timeline's next received, in order
    table,              \* the mounted EyewitnessTable (state and props)
    tableEffectPending, \* EyewitnessTable's completion effect has to run
    dndTable,           \* the mounted DNDTable
    instantiated,       \* keys of the EyewitnessTable instances mounted so far
    script,             \* the clicks a scripted participant makes, in order
    exInput,            \* processJsonToCSVs argument `data`: the timeline's results
    exOutput,           \* what processJsonToCSVs returned, or that it threw
    flatData,           \* loadAllStimuli: the rows of all resources, concatenated
    groupedData,        \* loadAllStimuli: the grouped stimuli
    nitems,             \* the nitems URL parameter
    loadStep,           \* how far the loading of the stimuli has come
    csvString,          \* parseCSV argument: the text of a resource
    parsed,             \* what parseCSV returned, or that it threw
    resources,          \* the fetches of loadAllStimuli, one per file
    selectedRow         \* EyewitnessTable state: the option id of the highlighted row

\* the state of the loading, scripting and export steps
loadVars == <<script, exInput, exOutput, flatData, groupedData, nitems, loadStep,
              csvString, parsed, resources>>

pureVars == <<loadVars, selectedRow>>

vars == <<variant, clock, stimuli, stimulusCounter, blockData, blockMounted,
          blockEffectPending, nextCalls, table, tableEffectPending, dndTable,
          instantiated, pureVars>>

\* a JavaScript value is a record [t, v]: t is its type
Num(n) == [t |-> "number", v |-> n]
Str(s) == [t |-> "string", v |-> s]
Bool(b) == [t |-> "boolean", v |-> b]
Undefined == [t |-> "undefined", v |-> 0]

\* useState<number | null>(null) of selectedRow: no row is highlighted
NullRow == 0

\* nothing is loaded, scripted, exported or highlighted
NoPure ==
    /\ script = <<>>
    /\ exInput = <<>>
    /\ exOutput = [status |-> "none", files |-> <<>>]
    /\ flatData = <<>>
    /\ groupedData = <<>>
    /\ nitems = Undefined
    /\ loadStep = "none"
    /\ selectedRow = NullRow
    /\ csvString = <<>>
    /\ parsed = [status |-> "none", rows |-> <<>>]
    /\ resources = <<>>

(***************************************************************************)
(* Stimuli                                                                 *)
(***************************************************************************)

\* sample evidence scores of an option; the engine only passes them through
Eyewitness1(id) == 10 * id + 1
Eyewitness2(id) == 10 * id + 2

MakeOption(id) ==
    [option |-> id, eyewitness1 |-> Eyewitness1(id), eyewitness2 |-> Eyewitness2(id)]

\* option lists of n options with pairwise distinct ids: in ascending id
\* order (ids equal to the positions) and in descending id order
Ascending(n) == [i \in 1..n |-> MakeOption(i)]
Descending(n) == [i \in 1..n |-> MakeOption(n + 1 - i)]

\* the sample corpus: per option count one filler stimulus and one target stimulus
GroupedStimuli ==
    { [category |-> "filler", stimulusIDwithinCategory |-> n, options |-> Ascending(n)] :
        n \in 1..MaxOptions } \cup
    { [category |-> "target", stimulusIDwithinCategory |-> n, options |-> Descending(n)] :
        n \in 1..MaxOptions }

\* the two trial types a build emits per stimulus
TrialTypes(v) == IF v = "part_001" THEN <<"consec", "dnd">> ELSE <<"rank", "consec">>

WithType(g, t) ==
    [category |-> g.category, stimulusIDwithinCategory |-> g.stimulusIDwithinCategory,
     options |-> g.options, type |-> t]

\* shuffle(loaded.slice(0, nitems).map(s => [{...s, type}, {...s, type}]).flat())
\* for a corpus of at most one grouped stimulus
TrialLists(v) ==
    { <<>> } \cup
    { <<WithType(g, TrialTypes(v)[1]), WithType(g, TrialTypes(v)[2])>> : g \in GroupedStimuli } \cup
    { <<WithType(g, TrialTypes(v)[2]), WithType(g, TrialTypes(v)[1])>> : g \in GroupedStimuli }

(***************************************************************************)
(* EyewitnessTable                                                         *)
(***************************************************************************)

NoTable ==
    [mounted |-> FALSE, key |-> -1, version |-> "none", data |-> <<>>,
     nSelection |-> 1, isPauseScreen |-> TRUE, startedTimestamp |-> 0]

NoDndTable ==
    [mounted |-> FALSE, items |-> <<>>, hasDragged |-> FALSE,
     showConfirmation |-> FALSE, startedTimestamp |-> 0, active |-> 0]

\* useState(stimulus.map((s) => ({ ...s, picked: [] })))
InitialData(options) ==
    [i \in 1..Len(options) |->
        [option |-> options[i].option, eyewitness1 |-> options[i].eyewitness1,
         eyewitness2 |-> options[i].eyewitness2, picked |-> <<>>]]

\* the state of a freshly mounted EyewitnessTable for the trial at cursor k
MountTable(k, now) ==
    [mounted |-> TRUE, key |-> k, version |-> stimuli[k + 1].type,
     data |-> InitialData(stimuli[k + 1].options),
     nSelection |-> 1, isPauseScreen |-> TRUE, startedTimestamp |-> now]

\* a render that always shows the table of the first trial (stimuli[0])
RenderTable_First(k, now) ==
    IF k >= Len(stimuli) THEN NoTable ELSE MountTable(0, now)

\* what EyewitnessBlock renders for cursor k: null when
\* stimulusCounter >= stimuli.length, else the table of stimuli[stimulusCounter]
RenderTable(k, now) ==
    IF k >= Len(stimuli) THEN NoTable ELSE MountTable(k, now)

\* no effect is left to run and the block is on screen: input is handled
Quiescent == blockMounted /\ ~blockEffectPending /\ ~tableEffectPending

\* a pick button that stays rendered in every version
ButtonRendered_Always(row, version) == TRUE

\* the pick button of a row is rendered: row.picked.length === 0 || version === 'rank'
ButtonRendered(row, version) == Len(row.picked) = 0 \/ version = "rank"

\* an updater that numbers a pick by the picks its own row holds
setDataPicked_RowCount(prevData, index, num, duration) ==
    [i \in 1..Len(prevData) |->
        IF i = index
        THEN [prevData[i] EXCEPT !.picked =
                Append(@, [num |-> Len(prevData[i].picked) + 1, time |-> duration])]
        ELSE prevData[i]]

\* an updater that moves the picked row behind the other rows
setDataPicked_MoveToEnd(prevData, index, num, duration) ==
    [i \in 1..Len(prevData) |->
        IF i = Len(prevData)
        THEN [prevData[index] EXCEPT !.picked = Append(@, [num |-> num, time |-> duration])]
        ELSE IF i < index THEN prevData[i] ELSE prevData[i + 1]]

\* the setData updater of handleChoice: append {num, time} to the picks of
\* the row at index, leave the other rows as they are
setDataPicked(prevData, index, num, duration) ==
    [i \in 1..Len(prevData) |->
        IF i = index
        THEN [prevData[i] EXCEPT !.picked = Append(@, [num |-> num, time |-> duration])]
        ELSE prevData[i]]

\* a pause test that is off by one: nSelection <= data.length
PauseAfterChoice_OffByOne(version, n, len) == version = "rank" /\ n <= len

\* handleChoice returns to the pause screen: version === 'rank' && nSelection + 1 <= data.length
PauseAfterChoice(version, n, len) == version = "rank" /\ n + 1 <= len

\* a completion guard that never holds
SelectionsDone_Never(n, len) == FALSE

\* a completion guard that is off by one: nSelection >= data.length
SelectionsDone_OffByOne(n, len) == n >= len

\* guard of the completion effect: nSelection > data.length
SelectionsDone(n, len) == n > len

(***************************************************************************)
(* DNDTable                                                                *)
(***************************************************************************)

\* useState(data.map((item) => item.option))
InitialItems(data) == [i \in 1..Len(data) |-> data[i].option]

\* items.indexOf(id), one-based; 0 when absent
indexOf(items, id) ==
    IF \E i \in 1..Len(items) : items[i] = id
    THEN CHOOSE i \in 1..Len(items) : items[i] = id /\ \A j \in 1..(i - 1) : items[j] # id
    ELSE 0

\* data.findIndex((item) => item.option === id), one-based; 0 when absent
findIndex(data, id) ==
    IF \E i \in 1..Len(data) : data[i].option = id
    THEN CHOOSE i \in 1..Len(data) :
            data[i].option = id /\ \A j \in 1..(i - 1) : data[j].option # id
    ELSE 0

\* the sequence without its element at index from
RemoveAt(items, from) ==
    [i \in 1..(Len(items) - 1) |-> IF i < from THEN items[i] ELSE items[i + 1]]

\* the sequence with x inserted so that it stands at index to
InsertAt(items, to, x) ==
    [i \in 1..(Len(items) + 1) |->
        IF i < to THEN items[i] ELSE IF i = to THEN x ELSE items[i - 1]]

\* a move that writes the element at from over the element at to
arrayMove_Overwrite(items, from, to) == [items EXCEPT ![to] = items[from]]

\* arrayMove of @dnd-kit/sortable: take the element at from out and put it in at to
arrayMove(items, from, to) == InsertAt(RemoveAt(items, from), to, items[from])

\* the updater of handleDragEnd, for the dragged id active dropped on id over
dragEndItems(items, active, over) ==
    IF active # over
    THEN arrayMove(items, indexOf(items, active), indexOf(items, over))
    ELSE items

\* items.forEach of submitData from position index on: the option standing
\* at position index of the working order gets {num: index, time: duration}
RECURSIVE pushRanks(_, _, _, _)
pushRanks(updatedData, items, index, duration) ==
    IF index > Len(items) THEN updatedData
    ELSE LET dataIndex == findIndex(updatedData, items[index])
             pushed == IF dataIndex # 0
                       THEN [updatedData EXCEPT ![dataIndex].picked =
                                Append(@, [num |-> index, time |-> duration])]
                       ELSE updatedData
         IN pushRanks(pushed, items, index + 1, duration)

\* a submit that ranks the options by their place in data, not in items
submitDataPicks_ByDataIndex(data, items, duration) ==
    [i \in 1..Len(data) |->
        [data[i] EXCEPT !.picked = Append(@, [num |-> i, time |-> duration])]]

\* updatedData of submitData
submitDataPicks(data, items, duration) == pushRanks(data, items, 1, duration)

\* a confirm that never asks
ConfirmationNeeded_Never(hasDragged) == FALSE

\* handleConfirm opens the dialog instead of submitting: !hasDragged
ConfirmationNeeded(hasDragged) == ~hasDragged

(***************************************************************************)
(* EyewitnessBlock                                                         *)
(***************************************************************************)

\* a next that stores only the newest result: setData([{...}])
blockNextData_Replace(data, stimulus, newData) ==
    <<[version |-> stimulus.type,
       category |-> stimulus.category,
       stimulusIdWithinCategory |-> stimulus.stimulusIDwithinCategory,
       option |-> newData]>>

\* the value next(newData) passes to setData
blockNextData(data, stimulus, newData) ==
    Append(data, [version |-> stimulus.type,
                  category |-> stimulus.category,
                  stimulusIdWithinCategory |-> stimulus.stimulusIDwithinCategory,
                  option |-> newData])

\* a block guard that is off by one: stimulusCounter + 1 >= stimuli.length
BlockDone_OffByOne(counter, len) == counter + 1 >= len

\* guard of the block's effect: stimulusCounter >= stimuli.length
BlockDone(counter, len) == counter >= len

\* a next whose render keeps the table it has (no key on EyewitnessTable), so
\* the state of the finished trial stays
Advance_NoKey(newData) ==
    /\ blockData' = blockNextData(blockData, stimuli[stimulusCounter + 1], newData)
    /\ stimulusCounter' = stimulusCounter + 1
    /\ table' = IF stimulusCounter + 1 >= Len(stimuli) THEN NoTable ELSE table
    /\ dndTable' = IF stimulusCounter + 1 >= Len(stimuli) THEN NoDndTable ELSE dndTable
    /\ instantiated' = instantiated
    /\ tableEffectPending' = table'.mounted
    /\ blockEffectPending' = TRUE

\* the next prop EyewitnessBlock gives the table: append the result, move the
\* cursor; the render that follows mounts the table of the new cursor (key =
\* stimulusCounter) and leaves the effects of both components to run
Advance(newData) ==
    /\ blockData' = blockNextData(blockData, stimuli[stimulusCounter + 1], newData)
    /\ stimulusCounter' = stimulusCounter + 1
    /\ table' = RenderTable(stimulusCounter + 1, clock)
    /\ dndTable' = NoDndTable
    /\ instantiated' = IF table'.mounted THEN Append(instantiated, table'.key) ELSE instantiated
    /\ tableEffectPending' = table'.mounted
    /\ blockEffectPending' = TRUE

(***************************************************************************)
(* Initial state: EyewitnessBlock has rendered for the first time          *)
(***************************************************************************)

Init ==
    /\ variant \in Variants
    /\ clock = 0
    /\ stimuli \in TrialLists(variant)
    /\ stimulusCounter = 0
    /\ blockData = <<>>
    /\ blockMounted = TRUE
    /\ blockEffectPending = TRUE
    /\ nextCalls = <<>>
    /\ table = RenderTable(0, 0)
    /\ tableEffectPending = table.mounted
    /\ dndTable = NoDndTable
    /\ instantiated = IF table.mounted THEN <<table.key>> ELSE <<>>
    /\ NoPure

(***************************************************************************)
(* Actions                                                                 *)
(***************************************************************************)

\* time passes between two inputs
Tick ==
    /\ Quiescent
    /\ clock < MaxClock
    /\ clock' = clock + 1
    /\ UNCHANGED <<pureVars, variant, stimuli, stimulusCounter, blockData, blockMounted,
                   blockEffectPending, nextCalls, table, tableEffectPending,
                   dndTable, instantiated>>

\* the timeline renders EyewitnessBlock again: next is a new function, so the
\* effects that depend on next run again
ParentRerender ==
    /\ Quiescent
    /\ blockEffectPending' = TRUE
    /\ tableEffectPending' = table.mounted
    /\ UNCHANGED <<pureVars, variant, clock, stimuli, stimulusCounter, blockData, blockMounted,
                   nextCalls, table, dndTable, instantiated>>

\* a click on the pause screen that leaves the timers running
Begin_NoReset ==
    /\ Quiescent
    /\ table.mounted
    /\ table.isPauseScreen
    /\ table' = [table EXCEPT !.isPauseScreen = FALSE]
    /\ dndTable' = IF table.version = "dnd"
                   THEN [mounted |-> TRUE, items |-> InitialItems(table.data),
                         hasDragged |-> FALSE, showConfirmation |-> FALSE,
                         startedTimestamp |-> table.startedTimestamp, active |-> 0]
                   ELSE dndTable
    /\ UNCHANGED <<pureVars, variant, clock, stimuli, stimulusCounter, blockData, blockMounted,
                   blockEffectPending, nextCalls, tableEffectPending, instantiated>>

\* click on the pause screen: setIsPauseScreen(false); the isPauseScreen
\* effect restarts the timer; a 'dnd' trial now mounts its DNDTable
Begin ==
    /\ Quiescent
    /\ table.mounted
    /\ table.isPauseScreen
    /\ table' = [table EXCEPT !.isPauseScreen = FALSE, !.startedTimestamp = clock]
    /\ dndTable' = IF table.version = "dnd"
                   THEN [mounted |-> TRUE, items |-> InitialItems(table.data),
                         hasDragged |-> FALSE, showConfirmation |-> FALSE,
                         startedTimestamp |-> clock, active |-> 0]
                   ELSE dndTable
    /\ UNCHANGED <<pureVars, variant, clock, stimuli, stimulusCounter, blockData, blockMounted,
                   blockEffectPending, nextCalls, tableEffectPending, instantiated>>

\* click on the pick button of the row at index (confirmNeeded is false)
handleChoice(index) ==
    /\ Quiescent
    /\ table.mounted
    /\ ~table.isPauseScreen
    /\ table.version # "dnd"
    /\ index \in 1..Len(table.data)
    /\ ButtonRendered(table.data[index], table.version)
    /\ LET duration == clock - table.startedTimestamp
       IN table' = [table EXCEPT
                      !.data = setDataPicked(@, index, table.nSelection, duration),
                      !.nSelection = @ + 1,
                      !.isPauseScreen =
                          PauseAfterChoice(table.version, table.nSelection, Len(table.data)),
                      !.startedTimestamp = clock]
    /\ tableEffectPending' = TRUE
    /\ UNCHANGED <<pureVars, variant, clock, stimuli, stimulusCounter, blockData, blockMounted,
                   blockEffectPending, nextCalls, dndTable, instantiated>>

\* the completion effect of EyewitnessTable: if (nSelection > data.length) next(data)
TableEffect ==
    /\ blockMounted
    /\ tableEffectPending
    /\ IF table.mounted /\ SelectionsDone(table.nSelection, Len(table.data))
       THEN Advance(table.data)
       ELSE /\ tableEffectPending' = FALSE
            /\ UNCHANGED <<stimulusCounter, blockData, blockEffectPending, table,
                           dndTable, instantiated>>
    /\ UNCHANGED <<pureVars, variant, clock, stimuli, blockMounted, nextCalls>>

\* the effect of EyewitnessBlock: if (stimulusCounter >= stimuli.length) next(data);
\* the timeline then leaves the block
BlockEffect ==
    /\ blockMounted
    /\ blockEffectPending
    /\ ~tableEffectPending
    /\ blockEffectPending' = FALSE
    /\ IF BlockDone(stimulusCounter, Len(stimuli))
       THEN /\ nextCalls' = Append(nextCalls, blockData)
            /\ blockMounted' = FALSE
       ELSE UNCHANGED <<nextCalls, blockMounted>>
    /\ UNCHANGED <<pureVars, variant, clock, stimuli, stimulusCounter, blockData, table,
                   tableEffectPending, dndTable, instantiated>>

\* input reaches the drag-and-drop list: it is on screen, no dialog covers it
DndReady ==
    /\ Quiescent
    /\ dndTable.mounted
    /\ ~dndTable.showConfirmation

\* a drag gesture picks up the item id
handleDragStart(id) ==
    /\ DndReady
    /\ dndTable.active = 0
    /\ indexOf(dndTable.items, id) # 0
    /\ dndTable' = [dndTable EXCEPT !.hasDragged = TRUE, !.active = id]
    /\ UNCHANGED <<pureVars, variant, clock, stimuli, stimulusCounter, blockData, blockMounted,
                   blockEffectPending, nextCalls, table, tableEffectPending, instantiated>>

\* the dragged item is dropped on the item over
handleDragEnd(over) ==
    /\ DndReady
    /\ dndTable.active # 0
    /\ indexOf(dndTable.items, over) # 0
    /\ dndTable' = [dndTable EXCEPT
                      !.items = dragEndItems(@, dndTable.active, over),
                      !.active = 0]
    /\ UNCHANGED <<pureVars, variant, clock, stimuli, stimulusCounter, blockData, blockMounted,
                   blockEffectPending, nextCalls, table, tableEffectPending, instantiated>>

\* submitData, then handleDndData: the picks go to every option and the
\* block's next is called with them
submitData ==
    Advance(submitDataPicks(table.data, dndTable.items, clock - dndTable.startedTimestamp))

\* click on Confirm under the list
handleConfirm ==
    /\ DndReady
    /\ dndTable.active = 0
    /\ IF ConfirmationNeeded(dndTable.hasDragged)
       THEN /\ dndTable' = [dndTable EXCEPT !.showConfirmation = TRUE]
            /\ UNCHANGED <<stimulusCounter, blockData, blockEffectPending, table,
                           tableEffectPending, instantiated>>
       ELSE submitData
    /\ UNCHANGED <<pureVars, variant, clock, stimuli, blockMounted, nextCalls>>

\* a Cancel that gives the trial up: the block moves on with the data as it is
CancelConfirmation_Abort ==
    /\ Quiescent
    /\ dndTable.mounted
    /\ dndTable.showConfirmation
    /\ Advance(table.data)
    /\ UNCHANGED <<pureVars, variant, clock, stimuli, blockMounted, nextCalls>>

\* click on Cancel in the dialog
CancelConfirmation ==
    /\ Quiescent
    /\ dndTable.mounted
    /\ dndTable.showConfirmation
    /\ dndTable' = [dndTable EXCEPT !.showConfirmation = FALSE]
    /\ UNCHANGED <<pureVars, variant, clock, stimuli, stimulusCounter, blockData, blockMounted,
                   blockEffectPending, nextCalls, table, tableEffectPending, instantiated>>

\* click on Continue in the dialog
ContinueConfirmation ==
    /\ Quiescent
    /\ dndTable.mounted
    /\ dndTable.showConfirmation
    /\ submitData
    /\ UNCHANGED <<pureVars, variant, clock, stimuli, blockMounted, nextCalls>>

OptionIds == 1..MaxOptions

Next ==
    \/ Tick
    \/ ParentRerender
    \/ Begin
    \/ \E index \in 1..MaxOptions : handleChoice(index)
    \/ TableEffect
    \/ BlockEffect
    \/ \E id \in OptionIds : handleDragStart(id)
    \/ \E over \in OptionIds : handleDragEnd(over)
    \/ handleConfirm
    \/ CancelConfirmation
    \/ ContinueConfirmation

Spec == Init /\ [][Next]_vars

(***************************************************************************)
(* processJsonToCSVs                                                       *)
(*                                                                         *)
(* A line of CSV text is kept as the sequence of the texts that join(',')  *)
(* puts between the commas.                                                *)
(***************************************************************************)

\* the rank columns pickedAsNr1..4 and timePickedNr1..4 of ProcessedRow
RankSlots == 4

\* data.find((item) => item.type === type): the place of the first such
\* item, 0 for undefined
findItemByType(data, type) ==
    IF \E i \in DOMAIN data : data[i].type = type
    THEN CHOOSE i \in DOMAIN data :
            data[i].type = type /\ \A j \in 1..(i - 1) : data[j].type # type
    ELSE 0

\* data.find((item) => item.name === name): the place of the first such
\* item, 0 for undefined
findItemByName(data, name) ==
    IF \E i \in DOMAIN data : data[i].name = name
    THEN CHOOSE i \in DOMAIN data :
            data[i].name = name /\ \A j \in 1..(i - 1) : data[j].name # name
    ELSE 0

\* opt.picked.find((p) => p.num == k): the place of the first such pick, 0
\* for undefined
findPick(picked, k) ==
    IF \E i \in DOMAIN picked : picked[i].num = k
    THEN CHOOSE i \in DOMAIN picked :
            picked[i].num = k /\ \A j \in 1..(i - 1) : picked[j].num # k
    ELSE 0

\* a flag column that is set by any pick of rank k or above
pickedAsNr_AtLeast(opt, k) == Bool(\E i \in DOMAIN opt.picked : opt.picked[i].num >= k)

\* !!opt.picked.find((p) => p.num == k)
pickedAsNr(opt, k) == Bool(findPick(opt.picked, k) # 0)

\* a time column that reads the time of the first pick, whatever its rank
timePickedNr_First(opt, k) ==
    IF Len(opt.picked) > 0 THEN Num(opt.picked[1].time) ELSE Undefined

\* opt.picked.find((p) => p.num == k)?.time
timePickedNr(opt, k) ==
    IF findPick(opt.picked, k) # 0
    THEN Num(opt.picked[findPick(opt.picked, k)].time)
    ELSE Undefined

\* the object trial.option.map builds for opt: its keys in insertion order,
\* each with its value
processedRow(trial, opt) ==
    << <<"version", Str(trial.version)>>,
       <<"category", Str(trial.category)>>,
       <<"stimulusidwithincategory", Num(trial.stimulusIdWithinCategory)>>,
       <<"option", Num(opt.option)>>,
       <<"eyewitness1", Num(opt.eyewitness1)>>,
       <<"eyewitness2", Num(opt.eyewitness2)>> >>
    \o [k \in 1..RankSlots |-> <<"pickedAsNr" \o ToString(k), pickedAsNr(opt, k)>>]
    \o [k \in 1..RankSlots |-> <<"timePickedNr" \o ToString(k), timePickedNr(opt, k)>>]

\* trials.flatMap((trial) => trial.option.map(...))
RECURSIVE processedRows(_)
processedRows(trials) ==
    IF trials = <<>> THEN <<>>
    ELSE [j \in DOMAIN trials[1].option |-> processedRow(trials[1], trials[1].option[j])]
         \o processedRows(Tail(trials))

\* Object.keys(row)
ObjectKeys(row) == [i \in DOMAIN row |-> row[i][1]]

\* Object.values(row).map((value) => (value === null ? '' : value))
ObjectValues(row) ==
    [i \in DOMAIN row |-> IF row[i][2].t = "null" THEN Str("") ELSE row[i][2]]

\* a join that writes undefined out, as String(value) does
joinText_String(value) ==
    IF value.t \in {"undefined", "null"} THEN value.t
    ELSE IF value.t = "string" THEN value.v
    ELSE IF value.t = "boolean" THEN (IF value.v THEN "true" ELSE "false")
    ELSE ToString(value.v)

\* the text join(',') writes for an element: nothing for undefined and
\* null, else the element as a string
joinText(value) ==
    IF value.t \in {"undefined", "null"} THEN ""
    ELSE IF value.t = "string" THEN value.v
    ELSE IF value.t = "boolean" THEN (IF value.v THEN "true" ELSE "false")
    ELSE ToString(value.v)

\* row values joined to a line of the trial table
csvRow(row) == [i \in DOMAIN row |-> joinText(ObjectValues(row)[i])]

\* `${sessionID},${surveyItem.name},${surveyItem.value}`
csvRowSurvey(sessionID, surveyItem) ==
    <<ToString(sessionID), surveyItem.name, surveyItem.value>>

\* the FileUpload of the trial table
trialdataFile(sessionID, rows) ==
    [filename |-> <<sessionID, "_trialdata.csv">>,
     encoding |-> "utf8",
     content |-> <<ObjectKeys(rows[1])>> \o [i \in DOMAIN rows |-> csvRow(rows[i])]]

\* the FileUpload of the survey table
surveyFile(sessionID, survey) ==
    [filename |-> <<sessionID, "_survey.csv">>,
     encoding |-> "utf8",
     content |-> << <<"sessionID", "measure", "value">> >>
                 \o [i \in DOMAIN survey |-> csvRowSurvey(sessionID, survey[i])]]

\* eyewitnessBlock?.data || []
trialsOf(data) ==
    IF findItemByType(data, "EyewitnessBlock") = 0 THEN <<>>
    ELSE data[findItemByType(data, "EyewitnessBlock")].data

Threw == [status |-> "threw", files |-> <<>>]
Returned(files) == [status |-> "returned", files |-> files]

\* processJsonToCSVs(sessionID, data) of the build v: Object.keys(rows[0])
\* throws when there is no row; part_001 reads .data of the survey item and
\* throws when there is none; App.tsx writes the trial table only
processJsonToCSVs(v, sessionID, data) ==
    LET rows == processedRows(trialsOf(data))
    IN IF rows = <<>> THEN Threw
       ELSE IF v = "part_001"
       THEN IF findItemByName(data, "survey") = 0 THEN Threw
            ELSE Returned(<<trialdataFile(sessionID, rows),
                            surveyFile(sessionID, data[findItemByName(data, "survey")].data)>>)
       ELSE Returned(<<trialdataFile(sessionID, rows)>>)

(***************************************************************************)
(* The export applied to the data of finished sessions                     *)
(***************************************************************************)

\* the most trials a sample session holds
MaxTrials == 2

\* the session id the upload hands to processJsonToCSVs
SampleSessionID == 7

\* the time in ms measured at the k-th pick of a sample trial
ClickTimes == <<300, 450, 200, 120, 80>>

\* the data of a table after the clicks on the rows clicks[k..]: the k-th
\* click is handled as pick k
RECURSIVE clickRun(_, _, _)
clickRun(data, clicks, k) ==
    IF k > Len(clicks) THEN data
    ELSE clickRun(setDataPicked(data, clicks[k], k, ClickTimes[k]), clicks, k + 1)

\* sample click orders a table of n rows completes with: each row once, from
\* the top down or from the bottom up, and with 'rank', where the button of
\* a picked row stays, also one row n times
ClickOrders(version, n) ==
    { c \in [1..n -> 1..n] :
        \/ \A i \in 1..n : c[i] = i
        \/ \A i \in 1..n : c[i] = n + 1 - i
        \/ version = "rank" /\ \A i, j \in 1..n : c[i] = c[j] }

\* what next(newData) stores for the trial of type version on the stimulus g
trialResult(g, version, newData) == blockNextData(<<>>, WithType(g, version), newData)[1]

\* the results of the trials that pick by click
ClickedTrials(v) ==
    { trialResult(g, version, clickRun(InitialData(g.options), clicks, 1)) :
        <<g, version, clicks>> \in
            { x \in GroupedStimuli \X {"rank", "consec"} \X UNION { [1..n -> 1..n] : n \in 1..MaxOptions } :
                /\ x[1].category = "filler"
                /\ \E i \in 1..2 : TrialTypes(v)[i] = x[2]
                /\ x[3] \in ClickOrders(x[2], Len(x[1].options)) } }

\* the stimuli of the drag-and-drop samples: up to one option more than the
\* table has rank columns
DraggedStimuli ==
    { [category |-> "target", stimulusIDwithinCategory |-> n, options |-> Ascending(n)] :
        n \in 1..(RankSlots + 1) }

\* the results of the 'dnd' trials: confirmed in the order shown or in the
\* reverse order
DraggedTrials(v) ==
    IF \E i \in 1..2 : TrialTypes(v)[i] = "dnd"
    THEN { trialResult(g, "dnd",
                submitDataPicks(InitialData(g.options), items, ClickTimes[2])) :
             <<g, items>> \in
                { x \in DraggedStimuli \X UNION { [1..n -> 1..n] : n \in 1..(RankSlots + 1) } :
                    /\ Len(x[2]) = Len(x[1].options)
                    /\ \/ x[2] = InitialItems(InitialData(x[1].options))
                       \/ x[2] = [i \in 1..Len(x[1].options) |-> Len(x[1].options) + 1 - i] } }
    ELSE {}

\* what the block can hand to the timeline: up to MaxTrials results
BlockResults(v) ==
    UNION { [1..n -> ClickedTrials(v) \cup DraggedTrials(v)] : n \in 0..MaxTrials }

\* the answers of the survey page
SurveyAnswers ==
    << [name |-> "dem_gender", value |-> "female"], [name |-> "dem_utility", value |-> "a little"] >>

ConsentItem == [type |-> "Text", name |-> "consenttext", data |-> <<>>]
SurveyItem(answers) == [type |-> "Quest", name |-> "survey", data |-> answers]
BlockItem(results) == [type |-> "EyewitnessBlock", name |-> "eyewitnesstrial", data |-> results]

\* the data of a session: the items of the timeline in order, the survey
\* item and the block item each there or not
Sessions(v) ==
    { <<ConsentItem>> \o s \o b :
        s \in { <<>> } \cup { <<SurveyItem(SubSeq(SurveyAnswers, 1, m))>> : m \in 1..Len(SurveyAnswers) },
        b \in { <<>> } \cup { <<BlockItem(r)>> : r \in BlockResults(v) } }

\* the experiment is over: no block, no table
BlockLeft ==
    /\ clock = 0
    /\ stimuli = <<>>
    /\ stimulusCounter = 0
    /\ blockData = <<>>
    /\ blockMounted = FALSE
    /\ blockEffectPending = FALSE
    /\ nextCalls = <<>>
    /\ table = NoTable
    /\ tableEffectPending = FALSE
    /\ dndTable = NoDndTable
    /\ instantiated = <<>>

InitExport ==
    /\ variant \in Variants
    /\ BlockLeft
    /\ script = <<>>
    /\ exInput \in Sessions(variant)
    /\ exOutput = [status |-> "none", files |-> <<>>]
    /\ flatData = <<>>
    /\ groupedData = <<>>
    /\ nitems = Undefined
    /\ loadStep = "none"
    /\ selectedRow = NullRow
    /\ csvString = <<>>
    /\ parsed = [status |-> "none", rows |-> <<>>]
    /\ resources = <<>>

\* the upload calls processJsonToCSVs(sessionID, data)
Export ==
    /\ exOutput.status = "none"
    /\ exOutput' = processJsonToCSVs(variant, SampleSessionID, exInput)
    /\ UNCHANGED <<variant, clock, stimuli, stimulusCounter, blockData, blockMounted,
                   blockEffectPending, nextCalls, table, tableEffectPending, dndTable,
                   instantiated, selectedRow, script, exInput, flatData, groupedData, nitems, loadStep,
                   csvString, parsed, resources>>

NextExport == Export

SpecExport == InitExport /\ [][NextExport]_vars

(***************************************************************************)
(* A participant who clicks every option of every trial once, in a fixed   *)
(* order and after fixed times                                             *)
(***************************************************************************)

\* the number of options of the scripted stimulus
ScriptOptions == 3

\* the times in ms the participant lets pass before a click
ScriptTimes == <<300, 500, 200, 400, 100>>

\* the orders of the first n elements of a sequence
Orders(seq, n) ==
    { [k \in 1..n |-> seq[c[k]]] :
        c \in { c \in [1..n -> 1..n] : \A i, j \in 1..n : c[i] = c[j] => i = j } }

\* the scripts: the k-th click goes to the row script[k].index, elapsed ms
\* after the table became active
Scripts ==
    { [k \in 1..ScriptOptions |-> [index |-> rows[k], elapsed |-> times[k]]] :
        rows \in Orders([i \in 1..ScriptOptions |-> i], ScriptOptions),
        times \in Orders(ScriptTimes, ScriptOptions) }

\* the stimulus of the scripted session: the options 1..ScriptOptions in order
ScriptStimulus ==
    [category |-> "filler", stimulusIDwithinCategory |-> 1, options |-> Ascending(ScriptOptions)]

InitScript ==
    /\ variant = "App"
    /\ clock = 0
    /\ stimuli \in { <<WithType(ScriptStimulus, TrialTypes(variant)[1]),
                        WithType(ScriptStimulus, TrialTypes(variant)[2])>>,
                      <<WithType(ScriptStimulus, TrialTypes(variant)[2]),
                        WithType(ScriptStimulus, TrialTypes(variant)[1])>> }
    /\ stimulusCounter = 0
    /\ blockData = <<>>
    /\ blockMounted = TRUE
    /\ blockEffectPending = TRUE
    /\ nextCalls = <<>>
    /\ table = RenderTable(0, 0)
    /\ tableEffectPending = table.mounted
    /\ dndTable = NoDndTable
    /\ instantiated = IF table.mounted THEN <<table.key>> ELSE <<>>
    /\ script \in Scripts
    /\ exInput = <<>>
    /\ exOutput = [status |-> "none", files |-> <<>>]
    /\ flatData = <<>>
    /\ groupedData = <<>>
    /\ nitems = Undefined
    /\ loadStep = "none"
    /\ selectedRow = NullRow
    /\ csvString = <<>>
    /\ parsed = [status |-> "none", rows |-> <<>>]
    /\ resources = <<>>

\* the participant lets the time of the script pass before the next click
ScriptWait ==
    /\ Quiescent
    /\ table.mounted
    /\ ~table.isPauseScreen
    /\ table.nSelection <= Len(script)
    /\ clock = table.startedTimestamp
    /\ clock' = clock + script[table.nSelection].elapsed
    /\ UNCHANGED <<pureVars, variant, stimuli, stimulusCounter, blockData, blockMounted,
                   blockEffectPending, nextCalls, table, tableEffectPending,
                   dndTable, instantiated>>

\* the participant clicks the row the script names
ScriptChoice ==
    /\ table.nSelection <= Len(script)
    /\ clock = table.startedTimestamp + script[table.nSelection].elapsed
    /\ handleChoice(script[table.nSelection].index)

\* the upload at the end of the timeline exports the session
ScriptExport ==
    /\ Len(nextCalls) > 0
    /\ exOutput.status = "none"
    /\ exInput' = <<ConsentItem, SurveyItem(SurveyAnswers), BlockItem(nextCalls[1])>>
    /\ exOutput' = processJsonToCSVs(variant, SampleSessionID, exInput')
    /\ UNCHANGED <<variant, clock, stimuli, stimulusCounter, blockData, blockMounted,
                   blockEffectPending, nextCalls, table, tableEffectPending, dndTable,
                   instantiated, selectedRow, script, flatData, groupedData, nitems, loadStep,
                   csvString, parsed, resources>>

NextScript ==
    \/ Begin
    \/ ScriptWait
    \/ ScriptChoice
    \/ TableEffect
    \/ BlockEffect
    \/ ScriptExport

SpecScript == InitScript /\ [][NextScript]_vars

(***************************************************************************)
(* loadAllStimuli and the scheduling of the trials                         *)
(***************************************************************************)

\* the most rows the resources hold together
MaxRows == 3

\* the largest value of the nitems parameter
MaxItems == 2

\* the builds that schedule trials: part_000 schedules rank + consec as App.tsx does
LoadVariants == Variants \cup {"part_000"}

\* the (category, stimulus) pairs of the sample rows
RowKeys == { <<"filler", 1>>, <<"target", 1>>, <<"filler", 2>> }

\* the rows with the keys keys: every row has evidence scores of its own;
\* the rows of a stimulus number their options from 1 on, or (numbered is
\* false) every row has the option id 1
RowsOf(keys, numbered) ==
    [i \in DOMAIN keys |->
        [category |-> keys[i][1],
         stimulus |-> keys[i][2],
         option |-> IF numbered
                    THEN 1 + Cardinality({ j \in 1..(i - 1) : keys[j] = keys[i] })
                    ELSE 1,
         eyewitness1 |-> Eyewitness1(i),
         eyewitness2 |-> Eyewitness2(i)]]

\* what allData.flat() can be
RowSequences ==
    { RowsOf(keys, numbered) :
        keys \in UNION { [1..n -> RowKeys] : n \in 0..MaxRows }, numbered \in BOOLEAN }

\* a find that looks at the newest stimulus only
findStimulus_Last(acc, row) ==
    IF /\ Len(acc) > 0
       /\ acc[Len(acc)].category = row.category
       /\ acc[Len(acc)].stimulusIDwithinCategory = row.stimulus
    THEN Len(acc)
    ELSE 0

\* acc.find((s) => s.category === row.category &&
\*               s.stimulusIDwithinCategory === row.stimulus): the place of
\* the first such stimulus, 0 for undefined
findStimulus(acc, row) ==
    IF \E i \in DOMAIN acc :
          acc[i].category = row.category /\ acc[i].stimulusIDwithinCategory = row.stimulus
    THEN CHOOSE i \in DOMAIN acc :
            /\ acc[i].category = row.category /\ acc[i].stimulusIDwithinCategory = row.stimulus
            /\ \A j \in 1..(i - 1) :
                  ~(acc[j].category = row.category /\ acc[j].stimulusIDwithinCategory = row.stimulus)
    ELSE 0

\* the Option built from a row
rowOption(row) ==
    [option |-> row.option, eyewitness1 |-> row.eyewitness1, eyewitness2 |-> row.eyewitness2]

\* the callback of flatData.reduce
groupRow(acc, row) ==
    IF findStimulus(acc, row) # 0
    THEN [acc EXCEPT ![findStimulus(acc, row)].options = Append(@, rowOption(row))]
    ELSE Append(acc, [category |-> row.category,
                      stimulusIDwithinCategory |-> row.stimulus,
                      options |-> <<rowOption(row)>>])

\* flatData.reduce(callback, []) from the row at i on
RECURSIVE reduceRows(_, _, _)
reduceRows(acc, rows, i) ==
    IF i > Len(rows) THEN acc ELSE reduceRows(groupRow(acc, rows[i]), rows, i + 1)

\* the end handed to slice: the value of getParam('nitems', undefined,
\* 'number') in App.tsx and part_001, Number(getParams()['nitems']) ||
\* undefined in part_000, where 0 is falsy
sliceEnd(v, param) ==
    IF v = "part_000" /\ param.t = "number" /\ param.v = 0 THEN Undefined ELSE param

\* array.slice(0, end) for end undefined or at least 0
slice0(array, end) ==
    IF end.t = "undefined" \/ end.v >= Len(array) THEN array ELSE SubSeq(array, 1, end.v)

\* .map((stimulus) => [{...stimulus, type}, {...stimulus, type}]).flat()
RECURSIVE mapTypesFlat(_, _)
mapTypesFlat(v, grouped) ==
    IF grouped = <<>> THEN <<>>
    ELSE <<WithType(grouped[1], TrialTypes(v)[1]), WithType(grouped[1], TrialTypes(v)[2])>>
         \o mapTypesFlat(v, Tail(grouped))

\* what shuffle(array) can return: the elements of array in any order
shuffle(array) ==
    { [k \in DOMAIN array |-> array[c[k]]] :
        c \in { c \in [DOMAIN array -> DOMAIN array] :
                    \A i, j \in DOMAIN array : c[i] = c[j] => i = j } }

InitLoad ==
    /\ variant \in LoadVariants
    /\ BlockLeft
    /\ script = <<>>
    /\ exInput = <<>>
    /\ exOutput = [status |-> "none", files |-> <<>>]
    /\ flatData \in RowSequences
    /\ groupedData = <<>>
    /\ nitems \in {Undefined} \cup { Num(n) : n \in 0..MaxItems }
    /\ loadStep = "fetched"
    /\ selectedRow = NullRow
    /\ csvString = <<>>
    /\ parsed = [status |-> "none", rows |-> <<>>]
    /\ resources = <<>>

\* loadAllStimuli groups the rows
Group ==
    /\ loadStep = "fetched"
    /\ groupedData' = reduceRows(<<>>, flatData, 1)
    /\ loadStep' = "grouped"
    /\ UNCHANGED <<variant, clock, stimuli, stimulusCounter, blockData, blockMounted,
                   blockEffectPending, nextCalls, table, tableEffectPending, dndTable,
                   instantiated, selectedRow, script, exInput, exOutput, flatData, nitems,
                   csvString, parsed, resources>>

\* the module schedules the trials: slice, map, flat, shuffle
Schedule ==
    /\ loadStep = "grouped"
    /\ stimuli' \in shuffle(mapTypesFlat(variant, slice0(groupedData, sliceEnd(variant, nitems))))
    /\ loadStep' = "scheduled"
    /\ UNCHANGED <<variant, clock, stimulusCounter, blockData, blockMounted,
                   blockEffectPending, nextCalls, table, tableEffectPending, dndTable,
                   instantiated, selectedRow, script, exInput, exOutput, flatData, groupedData, nitems,
                   csvString, parsed, resources>>

NextLoad ==
    \/ Group
    \/ Schedule

SpecLoad == InitLoad /\ [][NextLoad]_vars

(***************************************************************************)
(* parseCSV                                                                *)
(*                                                                         *)
(* A text is kept as the sequence of its lines (what split('\n') gives),   *)
(* a line as the sequence of its cells (what split(',') gives).  A cell is *)
(* [body, quoted, cr]: its text is the body, in double quotes if quoted,   *)
(* with a carriage return behind it if cr.  The body Num(n) stands for the *)
(* decimal numeral of n, the body Str(s) for the characters s.             *)
(***************************************************************************)

\* the most columns of a text
MaxCols == 2

\* the most data lines of a text
MaxLines == 2

Cell(body, quoted, cr) == [body |-> body, quoted |-> quoted, cr |-> cr]

\* the names of the header columns
HeaderNames == <<"category", "stimulus", "option", "eyewitness1", "eyewitness2">>

\* the bodies of the data cells: a word, a numeral, nothing
CellBodies == {Str("filler"), Num(7), Str("")}

\* the formats of a text: words and header names in double quotes or not,
\* lines ended by "\r\n" or by "\n"
Formats ==
    { [quoted |-> FALSE, crlf |-> FALSE], [quoted |-> FALSE, crlf |-> TRUE],
      [quoted |-> TRUE, crlf |-> TRUE] }

\* a text as the server sends it: h header columns, a data line of h
\* cells per element of bodies, the data line at short (if any) without its
\* last cell; words stand in quotes if the format says so
TextOf(h, bodies, short, format) ==
    LET all == <<[i \in 1..h |-> Cell(Str(HeaderNames[i]), format.quoted, FALSE)]>>
               \o [r \in DOMAIN bodies |->
                     [i \in 1..(IF r = short THEN h - 1 ELSE h) |->
                         Cell(bodies[r][i],
                              format.quoted /\ bodies[r][i].t = "string" /\ bodies[r][i].v # "",
                              FALSE)]]
    IN [l \in DOMAIN all |->
          [i \in DOMAIN all[l] |->
              IF i = Len(all[l]) THEN [all[l][i] EXCEPT !.cr = format.crlf] ELSE all[l][i]]]

\* a line of white space only: one cell without characters
BlankLine(line) == Len(line) = 1 /\ line[1].body = Str("") /\ ~line[1].quoted

\* the text without the blank lines at its end
RECURSIVE dropBlankEnd(_)
dropBlankEnd(text) ==
    IF Len(text) > 1 /\ BlankLine(text[Len(text)])
    THEN dropBlankEnd(SubSeq(text, 1, Len(text) - 1))
    ELSE text

\* csvString.trim().split('\n'): the trim takes the white space at the
\* end of the text, so the blank lines there and the carriage return of
\* the last line that stays
trimSplit(text) ==
    LET kept == dropBlankEnd(text)
    IN [l \in DOMAIN kept |->
          [i \in DOMAIN kept[l] |->
              IF l = Len(kept) /\ i = Len(kept[l]) THEN [kept[l][i] EXCEPT !.cr = FALSE]
              ELSE kept[l][i]]]

\* value.replace(/"/g, '')
removeQuotes(cell) == [cell EXCEPT !.quoted = FALSE]

\* value.replace('\r', '')
removeCR(cell) == [cell EXCEPT !.cr = FALSE]

\* the string a cell without quotes and carriage return is
stringOf(cell) == IF cell.body.t = "number" THEN ToString(cell.body.v) ELSE cell.body.v

NaN == [t |-> "NaN", v |-> 0]

\* Number(value): the number of a numeral, 0 for a text of white space
\* only (the empty text, a lone carriage return), NaN for every other text;
\* white space around the text does not count
Number(cell) ==
    IF cell.quoted THEN NaN
    ELSE IF cell.body.t = "number" THEN cell.body
    ELSE IF cell.body.v = "" THEN Num(0)
    ELSE NaN

\* isNaN(Number(value)) ? value.replace('\r', '') : Number(value)
fieldValue(cell) ==
    IF Number(cell).t = "NaN" THEN Str(stringOf(removeCR(cell))) ELSE Number(cell)

\* obj[header] = value on the entries of obj, in insertion order
setField(obj, header, value) ==
    IF \E i \in DOMAIN obj : obj[i][1] = header
    THEN [i \in DOMAIN obj |-> IF obj[i][1] = header THEN <<header, value>> ELSE obj[i]]
    ELSE Append(obj, <<header, value>>)

\* headers.reduce(callback, {}) from the header at index on; "TypeError"
\* when values has no element at index, as value.replace is read of undefined
RECURSIVE reduceHeaders(_, _, _, _)
reduceHeaders(obj, headers, values, index) ==
    IF index > Len(headers) THEN obj
    ELSE IF index > Len(values) THEN "TypeError"
    ELSE reduceHeaders(setField(obj, headers[index], fieldValue(values[index])),
                       headers, values, index + 1)

\* the header names: quotes and carriage return taken off
headersOf(lines) ==
    [i \in DOMAIN lines[1] |-> stringOf(removeCR(removeQuotes(lines[1][i])))]

\* the row of a data line, or "TypeError"
rowOf(headers, line) ==
    reduceHeaders(<<>>, headers, [i \in DOMAIN line |-> removeQuotes(line[i])], 1)

\* the lines from which the callback of map throws
ThrowingLines(lines) ==
    { l \in 2..Len(lines) : Len(lines[l]) < Len(lines[1]) }

\* a parse that leaves out the lines with fewer fields than the header
parseCSV_SkipShort(text) ==
    LET lines == trimSplit(text)
        kept == SelectSeq(Tail(lines), LAMBDA line : Len(line) >= Len(lines[1]))
    IN [status |-> "returned",
        rows |-> [r \in DOMAIN kept |-> rowOf(headersOf(lines), kept[r])]]

\* parseCSV(csvString)
parseCSV(text) ==
    LET lines == trimSplit(text)
    IN IF ThrowingLines(lines) # {} THEN [status |-> "threw", rows |-> <<>>]
       ELSE [status |-> "returned",
             rows |-> [r \in 1..(Len(lines) - 1) |-> rowOf(headersOf(lines), lines[r + 1])]]

InitParse ==
    /\ variant \in Variants
    /\ BlockLeft
    /\ script = <<>>
    /\ exInput = <<>>
    /\ exOutput = [status |-> "none", files |-> <<>>]
    /\ flatData = <<>>
    /\ groupedData = <<>>
    /\ nitems = Undefined
    /\ loadStep = "none"
    /\ selectedRow = NullRow
    /\ \E h \in 1..MaxCols, r \in 0..MaxLines, format \in Formats :
          \E bodies \in [1..r -> [1..h -> CellBodies]], short \in 0..r :
              /\ short # 0 => h > 1
              /\ csvString = TextOf(h, bodies, short, format)
    /\ parsed = [status |-> "none", rows |-> <<>>]
    /\ resources = <<>>

\* loadAndParseCSV hands the text to parseCSV
Parse ==
    /\ parsed.status = "none"
    /\ csvString # <<>>
    /\ parsed' = parseCSV(csvString)
    /\ UNCHANGED <<variant, clock, stimuli, stimulusCounter, blockData, blockMounted,
                   blockEffectPending, nextCalls, table, tableEffectPending, dndTable,
                   instantiated, selectedRow, script, exInput, exOutput, flatData, groupedData, nitems,
                   loadStep, csvString, resources>>

NextParse == Parse

SpecParse == InitParse /\ [][NextParse]_vars

(***************************************************************************)
(* loadAllStimuli: the fetches of the resources                            *)
(***************************************************************************)

\* the files loadAllStimuli asks for
ResourceFiles ==
    <<"filler_stimuli_3options.csv", "filler_stimuli_4options.csv",
      "target_stimuli_3options.csv", "target_stimuli_4options.csv">>

\* the stimulus a sample file lists
ResourceKeys == << <<"filler", 1>>, <<"filler", 2>>, <<"target", 1>>, <<"target", 2>> >>

\* the rows the sample file i lists: two options of its stimulus
ResourceRows(i) == RowsOf(<<ResourceKeys[i], ResourceKeys[i]>>, TRUE)

\* the cells of the line of a row
rowBodies(row) ==
    <<Str(row.category), Num(row.stimulus), Num(row.option),
      Num(row.eyewitness1), Num(row.eyewitness2)>>

\* the text of the sample file i, its last line without its last cell if short
ResourceText(i, short) ==
    TextOf(Len(HeaderNames),
           [r \in DOMAIN ResourceRows(i) |-> rowBodies(ResourceRows(i)[r])],
           IF short THEN Len(ResourceRows(i)) ELSE 0,
           [quoted |-> TRUE, crlf |-> TRUE])

\* what fetch can come to for the file i: a rejection, a response with a
\* status that is not OK, a response with the text of the file, a response
\* with a text that is cut off
ResponseKinds == {"rejected", "notOk", "ok", "cutOff"}

\* the response of that kind for the file i
Response(i, kind) ==
    [rejected |-> kind = "rejected",
     ok |-> kind \in {"ok", "cutOff"},
     text |-> IF kind = "rejected" THEN <<>> ELSE ResourceText(i, kind = "cutOff")]

\* row[key] of a parsed row
fieldOf(row, key) == row[CHOOSE c \in DOMAIN row : row[c][1] = key][2].v

\* the parsed rows as the records the grouper reads
asRows(rows) ==
    [r \in DOMAIN rows |->
        [category |-> fieldOf(rows[r], "category"),
         stimulus |-> fieldOf(rows[r], "stimulus"),
         option |-> fieldOf(rows[r], "option"),
         eyewitness1 |-> fieldOf(rows[r], "eyewitness1"),
         eyewitness2 |-> fieldOf(rows[r], "eyewitness2")]]

\* a loader that does not look at response.ok
loadAndParseCSV_AnyStatus(response) ==
    IF response.rejected THEN <<>>
    ELSE IF parseCSV(response.text).status = "threw" THEN <<>>
    ELSE asRows(parseCSV(response.text).rows)

\* loadAndParseCSV: the rows of the text, [] from the catch when fetch
\* rejects, when the status is not OK or when parseCSV throws
loadAndParseCSV(response) ==
    IF response.rejected \/ ~response.ok THEN <<>>
    ELSE IF parseCSV(response.text).status = "threw" THEN <<>>
    ELSE asRows(parseCSV(response.text).rows)

\* a wait that ends with the first load that settles
AllSettled_Any(loads) == \E i \in DOMAIN loads : loads[i].settled

\* Promise.all resolves: every loadAndParseCSV has returned
AllSettled(loads) == \A i \in DOMAIN loads : loads[i].settled

\* allData.flat() from the load i on; a load that has not returned has no rows
RECURSIVE flat(_, _)
flat(loads, i) ==
    IF i > Len(loads) THEN <<>> ELSE loads[i].rows \o flat(loads, i + 1)

InitFetch ==
    /\ variant \in Variants
    /\ BlockLeft
    /\ script = <<>>
    /\ exInput = <<>>
    /\ exOutput = [status |-> "none", files |-> <<>>]
    /\ flatData = <<>>
    /\ groupedData = <<>>
    /\ nitems = Undefined
    /\ loadStep = "fetching"
    /\ selectedRow = NullRow
    /\ csvString = <<>>
    /\ parsed = [status |-> "none", rows |-> <<>>]
    /\ \E kinds \in [DOMAIN ResourceFiles -> ResponseKinds] :
          resources = [i \in DOMAIN ResourceFiles |->
                          [response |-> Response(i, kinds[i]), settled |-> FALSE, rows |-> <<>>]]

\* the loadAndParseCSV of the file i returns
Settle(i) ==
    /\ loadStep = "fetching"
    /\ ~resources[i].settled
    /\ resources' = [resources EXCEPT ![i].settled = TRUE,
                                      ![i].rows = loadAndParseCSV(resources[i].response)]
    /\ UNCHANGED <<variant, clock, stimuli, stimulusCounter, blockData, blockMounted,
                   blockEffectPending, nextCalls, table, tableEffectPending, dndTable,
                   instantiated, selectedRow, script, exInput, exOutput, flatData, groupedData, nitems,
                   loadStep, csvString, parsed>>

\* loadAllStimuli goes on behind await Promise.all: flat, reduce, return
GroupLoaded ==
    /\ loadStep = "fetching"
    /\ AllSettled(resources)
    /\ flatData' = flat(resources, 1)
    /\ groupedData' = reduceRows(<<>>, flatData', 1)
    /\ loadStep' = "grouped"
    /\ UNCHANGED <<variant, clock, stimuli, stimulusCounter, blockData, blockMounted,
                   blockEffectPending, nextCalls, table, tableEffectPending, dndTable,
                   instantiated, selectedRow, script, exInput, exOutput, nitems, csvString, parsed,
                   resources>>

NextFetch ==
    \/ \E i \in DOMAIN ResourceFiles : Settle(i)
    \/ GroupLoaded

SpecFetch == InitFetch /\ [][NextFetch]_vars

(***************************************************************************)
(* Properties                                                              *)
(***************************************************************************)

\* the results, by position in the block's data, of the completed trials of
\* the given versions
Completed(versions) == { i \in 1..Len(blockData) : blockData[i].version \in versions }

\* the picks of a result, each named by (place of the option, place of the pick)
AllPicks(result) ==
    UNION { { <<j, k>> : k \in DOMAIN result.option[j].picked } : j \in DOMAIN result.option }

\* the picks of a result that assigned rank r
RankPlaces(result, r) ==
    { p \in AllPicks(result) : result.option[p[1]].picked[p[2]].num = r }

\* the options of a list of responses that hold a pick of rank r
HoldersOfRank(responses, r) ==
    { j \in DOMAIN responses :
        \E k \in DOMAIN responses[j].picked : responses[j].picked[k].num = r }

\* the table's trial has reached complete: every selection is made ('rank',
\* 'consec'), or the confirm of a 'dnd' trial is being accepted
TrialComplete ==
    /\ table.mounted
    /\ IF table.version = "dnd"
       THEN dndTable.mounted /\ (dndTable.hasDragged \/ dndTable.showConfirmation)
       ELSE table.nSelection > Len(table.data)

\* C1 as stated: every completed 'consec' trial has exactly one option with
\* exactly one PickEvent, of rank 1, and every other option has none.
C1_SingleChoiceLaw ==
    \A i \in Completed({"consec"}) :
        \E j \in DOMAIN blockData[i].option :
            /\ Len(blockData[i].option[j].picked) = 1
            /\ blockData[i].option[j].picked[1].num = 1
            /\ \A k \in DOMAIN blockData[i].option \ {j} :
                    Len(blockData[i].option[k].picked) = 0

\* C1 amended: in a 'consec' trial the first pick assigns rank 1 to the
\* clicked option and to no other; the trial is complete only when each of
\* its N options holds a PickEvent; a completed 'consec' trial has exactly
\* one option of rank 1 and every option holds exactly one PickEvent.
C1_ConsecLaw ==
    /\ \A i \in Completed({"consec"}) :
          /\ Cardinality(HoldersOfRank(blockData[i].option, 1)) = 1
          /\ \A j \in DOMAIN blockData[i].option : Len(blockData[i].option[j].picked) = 1
    /\ (table.mounted /\ table.version = "consec") =>
          /\ table.nSelection = 1 => \A j \in DOMAIN table.data : Len(table.data[j].picked) = 0
          /\ table.nSelection > 1 =>
                /\ Cardinality(HoldersOfRank(table.data, 1)) = 1
                /\ \A j \in HoldersOfRank(table.data, 1) : Len(table.data[j].picked) = 1
          /\ table.nSelection > Len(table.data) <=>
                \A j \in DOMAIN table.data : Len(table.data[j].picked) = 1

\* a 'consec' trial of more than one option has completed
C1_Witness ==
    \E i \in Completed({"consec"}) : Len(blockData[i].option) > 1

\* C2 as stated: in every completed 'rank' or 'dnd' trial every option has
\* exactly one PickEvent and the ranks of the options are exactly 1..N.
C2_Bijection ==
    \A i \in Completed({"rank", "dnd"}) :
        /\ \A j \in DOMAIN blockData[i].option : Len(blockData[i].option[j].picked) = 1
        /\ { blockData[i].option[j].picked[1].num : j \in DOMAIN blockData[i].option }
              = 1..Len(blockData[i].option)

\* C3 as stated: in a 'rank' trial an option that holds a PickEvent never
\* gets another one: a pointer action on it changes no picks.
C3_RepickRejected ==
    [][ (table.mounted /\ table.version = "rank" /\ table'.mounted /\ table'.key = table.key)
            => \A i \in DOMAIN table.data :
                  Len(table.data[i].picked) > 0 => table'.data[i].picked = table.data[i].picked
      ]_vars

\* C4: in every completed 'rank' or 'dnd' trial of N options each rank 1..N
\* is assigned by exactly one PickEvent and there are N PickEvents in all.
C4_RankMultiset ==
    \A i \in Completed({"rank", "dnd"}) :
        /\ \A r \in 1..Len(blockData[i].option) : Cardinality(RankPlaces(blockData[i], r)) = 1
        /\ Cardinality(AllPicks(blockData[i])) = Len(blockData[i].option)

\* a 'rank' trial has completed in which one option was picked twice
C4_Witness ==
    \E i \in Completed({"rank"}) :
        \E j \in DOMAIN blockData[i].option : Len(blockData[i].option[j].picked) = 2

\* C5 as stated: a 'dnd' trial whose working order is the received order,
\* with no confirmation dialog open, is not completed by any step.
C5_IdentityNeverAccepted ==
    [][ (dndTable.mounted /\ ~dndTable.showConfirmation
            /\ dndTable.items = InitialItems(table.data))
            => stimulusCounter' = stimulusCounter ]_vars

\* C6: the step that accepts a 'dnd' confirm appends a result in which the
\* option at place p of the working order holds the one PickEvent
\* {num: p, time: d}, d being the time since the list was shown, the same
\* for all options; without a reorder the ranks are the received places.
C6_DragSubmit ==
    [][ (table.mounted /\ table.version = "dnd" /\ stimulusCounter' # stimulusCounter)
            => LET result == blockData'[Len(blockData')]
                   d == clock - dndTable.startedTimestamp
               IN /\ stimulusCounter' = stimulusCounter + 1
                  /\ Len(result.option) = Len(table.data)
                  /\ \A j \in DOMAIN result.option :
                        /\ result.option[j].option = table.data[j].option
                        /\ Len(result.option[j].picked) = 1
                        /\ result.option[j].picked[1].time = d
                  /\ \A p \in DOMAIN dndTable.items :
                        \E j \in DOMAIN result.option :
                            /\ result.option[j].option = dndTable.items[p]
                            /\ result.option[j].picked[1].num = p
                  /\ dndTable.items = InitialItems(table.data)
                        => \A j \in DOMAIN result.option : result.option[j].picked[1].num = j
      ]_vars

\* a 'dnd' trial has completed after a reorder and after time has passed
C6_Witness ==
    \E i \in Completed({"dnd"}) :
        /\ Len(blockData[i].option) > 1
        /\ blockData[i].option[1].picked[1].num # 1
        /\ blockData[i].option[1].picked[1].time > 0

\* C7: a 'rank' table starts with nSelection = 1 in ready; a pick is taken
\* only in active, assigns the current nSelection and adds 1 to it; after a
\* pick other than the N-th the table is in ready, and only the begin
\* gesture leaves ready; after the N-th pick the table is complete, not in
\* ready, and stays so until the next trial replaces it.
C7_RankSteps ==
    [][ /\ (table'.mounted /\ table'.key # table.key)
            => table'.nSelection = 1 /\ table'.isPauseScreen
        /\ (table.mounted /\ table.version = "rank" /\ table'.mounted /\ table'.key = table.key)
            => /\ table'.data # table.data =>
                    /\ ~table.isPauseScreen
                    /\ table'.nSelection = table.nSelection + 1
                    /\ table'.isPauseScreen = (table.nSelection < Len(table.data))
                    /\ \E i \in DOMAIN table.data :
                          /\ Len(table'.data[i].picked) = Len(table.data[i].picked) + 1
                          /\ table'.data[i].picked =
                                Append(table.data[i].picked,
                                       [num |-> table.nSelection,
                                        time |-> table'.data[i].picked[Len(table'.data[i].picked)].time])
                          /\ \A j \in DOMAIN table.data \ {i} : table'.data[j] = table.data[j]
               /\ table'.data = table.data =>
                    /\ table'.nSelection = table.nSelection
                    /\ table'.isPauseScreen # table.isPauseScreen
                          => table.isPauseScreen /\ ~table'.isPauseScreen
               /\ table.nSelection > Len(table.data) => table' = table
        /\ (table.mounted /\ table.version = "rank" /\ table.nSelection > Len(table.data))
            => ~table.isPauseScreen /\ table.nSelection = Len(table.data) + 1
      ]_vars

\* a 'rank' table of several options is complete, its last pick just made
C7_Witness ==
    /\ table.mounted
    /\ table.version = "rank"
    /\ Len(table.data) > 1
    /\ table.nSelection = Len(table.data) + 1

\* C8: a step that changes the cursor or the accumulated results is an
\* advance of the complete current trial: the cursor grows by 1, the old
\* results stay as they are in front, and the one new last entry carries the
\* scheduled trial's version, category, stimulus id and its options' responses.
C8_AdvanceAppends ==
    [][ (stimulusCounter' # stimulusCounter \/ blockData' # blockData)
            => /\ TrialComplete
               /\ stimulusCounter' = stimulusCounter + 1
               /\ Len(blockData') = Len(blockData) + 1
               /\ SubSeq(blockData', 1, Len(blockData)) = blockData
               /\ LET result == blockData'[Len(blockData')]
                      spec == stimuli[stimulusCounter + 1]
                  IN /\ result.version = spec.type
                     /\ result.category = spec.category
                     /\ result.stimulusIdWithinCategory = spec.stimulusIDwithinCategory
                     /\ Len(result.option) = Len(spec.options)
                     /\ \A j \in DOMAIN result.option :
                           result.option[j].option = spec.options[j].option
                     /\ table.version # "dnd" => result.option = table.data
      ]_vars

\* two results have been appended
C8_Witness == Len(blockData) = 2 /\ stimulusCounter = 2

\* C9: the timeline's next is called at most once, and is called once the
\* cursor is at the end of the list and the block's effect has run; its
\* payload is the whole result sequence, one entry per scheduled trial in
\* scheduled order; after it no table is shown.
C9_SingleCompletion ==
    /\ Len(nextCalls) <= 1
    /\ (stimulusCounter >= Len(stimuli) /\ ~blockEffectPending) => Len(nextCalls) = 1
    /\ Len(nextCalls) = 1 =>
          /\ stimulusCounter = Len(stimuli)
          /\ nextCalls[1] = blockData
          /\ Len(nextCalls[1]) = Len(stimuli)
          /\ \A i \in 1..Len(stimuli) :
                /\ nextCalls[1][i].version = stimuli[i].type
                /\ nextCalls[1][i].category = stimuli[i].category
                /\ nextCalls[1][i].stimulusIdWithinCategory = stimuli[i].stimulusIDwithinCategory
          /\ ~table.mounted
          /\ ~blockMounted

\* the completion call of a session of two trials has been made
C9_Witness == Len(nextCalls) = 1 /\ Len(nextCalls[1]) = 2

\* C10: before completion the one table shown is that of the trial at the
\* cursor; the tables are instantiated in list order, each once, and the
\* table of trial k+1 is instantiated in the step that appends the result of
\* the complete trial k.
C10_Sequential ==
    /\ [](/\ table.mounted =>
                /\ table.key = stimulusCounter
                /\ stimulusCounter < Len(stimuli)
                /\ table.version = stimuli[table.key + 1].type
                /\ Len(blockData) = table.key
          /\ (blockMounted /\ stimulusCounter < Len(stimuli)) => table.mounted
          /\ \A i \in DOMAIN instantiated : instantiated[i] = i - 1
          /\ Len(instantiated) =
                IF stimulusCounter < Len(stimuli) THEN stimulusCounter + 1 ELSE Len(stimuli))
    /\ [][ instantiated' # instantiated
            => /\ TrialComplete
               /\ instantiated' = Append(instantiated, table.key + 1)
               /\ Len(blockData') = table.key + 1
               /\ blockData'[table.key + 1].version = table.version
               /\ table'.mounted /\ table'.key = table.key + 1
         ]_vars

\* the table of the second trial is shown
C10_Witness ==
    /\ table.mounted
    /\ table.key = 1
    /\ instantiated = <<0, 1>>

\* C11: the results are as many as the cursor says and none is of the trial
\* on screen; a result is added only by a step that finds the trial
\* complete with a pick for each of its options, and that step takes the
\* trial's table away, so no second result of the trial follows, also not
\* when the completion effect runs again.
C11_OneResultPerTrial ==
    /\ [](/\ Len(blockData) = stimulusCounter
          /\ table.mounted => Len(blockData) = table.key)
    /\ [][ blockData' # blockData
            => /\ Len(blockData') = Len(blockData) + 1
               /\ TrialComplete
               /\ Cardinality(AllPicks(blockData'[Len(blockData')])) = Len(table.data)
               /\ ~(table'.mounted /\ table'.key = table.key)
         ]_vars

\* the completion effect of the second trial's table runs again after a
\* re-render, before any pick
C11_Witness ==
    /\ Len(blockData) = 1
    /\ table.mounted
    /\ table.nSelection = 1
    /\ ~table.isPauseScreen
    /\ tableEffectPending

TrialTable ==
    IF exOutput.status = "returned" THEN exOutput.files[1].content ELSE <<>>

\* the number of options of the first n results
RECURSIVE OptionsBefore(_, _)
OptionsBefore(results, n) ==
    IF n = 0 THEN 0 ELSE OptionsBefore(results, n - 1) + Len(results[n].option)

\* the line of the trial table written for option j of result t
LineOf(t, j) == TrialTable[1 + OptionsBefore(trialsOf(exInput), t - 1) + j]

\* the text in the column named key on that line
FieldOf(t, j, key) ==
    LineOf(t, j)[CHOOSE c \in DOMAIN TrialTable[1] : TrialTable[1][c] = key]

\* the picks of an option that carry rank K
PicksOfRank(opt, K) == { i \in DOMAIN opt.picked : opt.picked[i].num = K }

\* C14: for every option of every exported result and every K in 1..4 the
\* row's pickedAsNrK is true exactly when one of the option's picks has rank
\* K; timePickedNrK is then the time of that pick, and is empty otherwise.
C14_RankColumns ==
    exOutput.status = "returned" =>
        \A t \in DOMAIN trialsOf(exInput) :
          \A j \in DOMAIN trialsOf(exInput)[t].option :
            \A K \in 1..RankSlots :
              LET opt == trialsOf(exInput)[t].option[j]
              IN IF PicksOfRank(opt, K) # {}
                 THEN /\ FieldOf(t, j, "pickedAsNr" \o ToString(K)) = "true"
                      /\ \E i \in PicksOfRank(opt, K) :
                            FieldOf(t, j, "timePickedNr" \o ToString(K)) = ToString(opt.picked[i].time)
                 ELSE /\ FieldOf(t, j, "pickedAsNr" \o ToString(K)) = "false"
                      /\ FieldOf(t, j, "timePickedNr" \o ToString(K)) = ""

\* an exported option whose picks are exactly {num 2, time 450}: its row has
\* pickedAsNr2 true, timePickedNr2 450 and the other three flags false
C14_Witness ==
    /\ exOutput.status = "returned"
    /\ \E t \in DOMAIN trialsOf(exInput) :
         \E j \in DOMAIN trialsOf(exInput)[t].option :
            /\ trialsOf(exInput)[t].option[j].picked = <<[num |-> 2, time |-> 450]>>
            /\ FieldOf(t, j, "pickedAsNr2") = "true"
            /\ FieldOf(t, j, "timePickedNr2") = "450"
            /\ \A K \in {1, 3, 4} : FieldOf(t, j, "pickedAsNr" \o ToString(K)) = "false"


\* the export has run on a session without a result: there is no block
\* item, or the block's data is empty
ExportedNoTrial == exOutput.status # "none" /\ trialsOf(exInput) = <<>>

\* C15: given no trial result (no block data, or a block of zero trials) the
\* export returns an empty table and does not fail on the missing first row.
C15_EmptyTable ==
    ExportedNoTrial =>
        /\ exOutput.status = "returned"
        /\ Len(exOutput.files) >= 1
        /\ Len(exOutput.files[1].content) <= 1


\* the options of result t that hold a pick of a rank above the last rank column
BeyondSlots(t) ==
    { j \in DOMAIN trialsOf(exInput)[t].option :
        \E i \in DOMAIN trialsOf(exInput)[t].option[j].picked :
            trialsOf(exInput)[t].option[j].picked[i].num > RankSlots }

\* C16: a 'dnd' result of more than four options holds a pick of every rank
\* up to the number of options, so one of rank 5 for five options; in the
\* exported table the row of an option ranked beyond 4 has pickedAsNr1..4
\* all false and timePickedNr1..4 all empty.
C16_FifthRankDropped ==
    \A t \in DOMAIN trialsOf(exInput) :
        trialsOf(exInput)[t].version = "dnd" =>
            /\ \A r \in 1..Len(trialsOf(exInput)[t].option) :
                  Cardinality(RankPlaces(trialsOf(exInput)[t], r)) = 1
            /\ exOutput.status = "returned" =>
                  \A j \in BeyondSlots(t) : \A K \in 1..RankSlots :
                      /\ FieldOf(t, j, "pickedAsNr" \o ToString(K)) = "false"
                      /\ FieldOf(t, j, "timePickedNr" \o ToString(K)) = ""

\* a 'dnd' result of five options was exported and the option that holds
\* the pick of rank 5 has a row without any rank
C16_Witness ==
    /\ exOutput.status = "returned"
    /\ \E t \in DOMAIN trialsOf(exInput) :
         /\ trialsOf(exInput)[t].version = "dnd"
         /\ Len(trialsOf(exInput)[t].option) = RankSlots + 1
         /\ \E j \in BeyondSlots(t) :
               /\ trialsOf(exInput)[t].option[j].picked[1].num = RankSlots + 1
               /\ \A K \in 1..RankSlots : FieldOf(t, j, "pickedAsNr" \o ToString(K)) = "false"


\* the answers of the survey item of the session, <<>> if it has none
AnswersOf(data) ==
    IF findItemByName(data, "survey") = 0 THEN <<>>
    ELSE data[findItemByName(data, "survey")].data

\* C17: the export of a session with trials returns the survey table exactly
\* when the session has survey answers: with answers a second file with the
\* columns sessionID, measure, value and one line per answer; without
\* answers it still returns, with the trial table only.
C17_SurveyPayload ==
    (exOutput.status # "none" /\ trialsOf(exInput) # <<>>) =>
        /\ exOutput.status = "returned"
        /\ IF AnswersOf(exInput) # <<>>
           THEN /\ Len(exOutput.files) = 2
                /\ exOutput.files[2].content[1] = <<"sessionID", "measure", "value">>
                /\ Len(exOutput.files[2].content) = 1 + Len(AnswersOf(exInput))
                /\ \A i \in DOMAIN AnswersOf(exInput) :
                      exOutput.files[2].content[1 + i] =
                          <<ToString(SampleSessionID), AnswersOf(exInput)[i].name,
                            AnswersOf(exInput)[i].value>>
           ELSE Len(exOutput.files) = 1


\* C18: in the trial table every undefined value is an empty field: no
\* field is the text "undefined" or "null", a time column without a pick of
\* its rank is empty, and every data line has as many fields as the header.
C18_EmptyFields ==
    exOutput.status = "returned" =>
        LET rows == processedRows(trialsOf(exInput))
        IN /\ \A l \in DOMAIN TrialTable :
                 /\ Len(TrialTable[l]) = Len(TrialTable[1])
                 /\ \A c \in DOMAIN TrialTable[l] : TrialTable[l][c] \notin {"undefined", "null"}
           /\ Len(TrialTable) = 1 + Len(rows)
           /\ \A l \in DOMAIN rows : \A c \in DOMAIN rows[l] :
                 rows[l][c][2].t = "undefined" => TrialTable[1 + l][c] = ""

\* a table was exported with a line that has an empty time field between
\* its commas and the header's number of fields
C18_Witness ==
    /\ exOutput.status = "returned"
    /\ \E l \in 2..Len(TrialTable) :
          /\ Len(TrialTable[l]) = Len(TrialTable[1])
          /\ \E c \in DOMAIN TrialTable[l] :
                /\ TrialTable[l][c] = ""
                /\ processedRows(trialsOf(exInput))[l - 1][c][2].t = "undefined"


\* the place in the block's data of the result of the 'rank' trial, 0 if
\* that trial has not completed
RankResult ==
    IF \E t \in DOMAIN blockData : blockData[t].version = "rank"
    THEN CHOOSE t \in DOMAIN blockData : blockData[t].version = "rank"
    ELSE 0

\* C13: in a 'rank' trial whose N options are each clicked once, the option
\* clicked k-th ends with exactly the pick {num: k, time: the time of the
\* k-th click} and the options stay in the order they were shown in; the
\* exported row of the option clicked first has pickedAsNr1 true with its
\* time and every other rank column false or empty.
C13_ScriptedRanks ==
    RankResult # 0 =>
        /\ [j \in DOMAIN blockData[RankResult].option |-> blockData[RankResult].option[j].option]
              = [j \in 1..ScriptOptions |-> ScriptStimulus.options[j].option]
        /\ \A k \in DOMAIN script :
              blockData[RankResult].option[script[k].index].picked
                  = <<[num |-> k, time |-> script[k].elapsed]>>
        /\ exOutput.status = "returned" =>
              /\ FieldOf(RankResult, script[1].index, "pickedAsNr1") = "true"
              /\ FieldOf(RankResult, script[1].index, "timePickedNr1") = ToString(script[1].elapsed)
              /\ \A K \in 2..RankSlots :
                    /\ FieldOf(RankResult, script[1].index, "pickedAsNr" \o ToString(K)) = "false"
                    /\ FieldOf(RankResult, script[1].index, "timePickedNr" \o ToString(K)) = ""

\* the options 1, 2, 3 were clicked in the order 3, 1, 2 after 300, 500 and
\* 200 ms and the session was exported
C13_Witness ==
    /\ RankResult # 0
    /\ script = <<[index |-> 3, elapsed |-> 300], [index |-> 1, elapsed |-> 500],
                  [index |-> 2, elapsed |-> 200]>>
    /\ blockData[RankResult].option[1].picked = <<[num |-> 2, time |-> 500]>>
    /\ blockData[RankResult].option[2].picked = <<[num |-> 3, time |-> 200]>>
    /\ blockData[RankResult].option[3].picked = <<[num |-> 1, time |-> 300]>>
    /\ exOutput.status = "returned"
    /\ FieldOf(RankResult, 3, "pickedAsNr1") = "true"
    /\ FieldOf(RankResult, 3, "timePickedNr1") = "300"


\* the rows of flatData with the key of the group g, in row order
RowsWithKey(g) ==
    { i \in DOMAIN flatData :
        flatData[i].category = g.category /\ flatData[i].stimulus = g.stimulusIDwithinCategory }

\* the place of the first row with the key of the group g
FirstRow(g) == CHOOSE i \in RowsWithKey(g) : \A j \in RowsWithKey(g) : i <= j

\* the k-th smallest element of a set of numbers
RECURSIVE Nth(_, _)
Nth(S, k) ==
    LET least == CHOOSE x \in S : \A y \in S : x <= y
    IN IF k = 1 THEN least ELSE Nth(S \ {least}, k - 1)

\* C20: the grouper is an order-preserving group-by.  Every group has rows
\* with its (category, stimulus) and its options are the Options of exactly
\* those rows, in row order; every row has a group with its key; no two
\* groups share a key; the groups stand in the order of their first rows;
\* there are as many options as rows.
C20_GroupBy ==
    loadStep # "fetched" =>
        /\ \A g \in DOMAIN groupedData :
              /\ Len(groupedData[g].options) = Cardinality(RowsWithKey(groupedData[g]))
              /\ \A k \in DOMAIN groupedData[g].options :
                    groupedData[g].options[k] = rowOption(flatData[Nth(RowsWithKey(groupedData[g]), k)])
        /\ \A i \in DOMAIN flatData : \E g \in DOMAIN groupedData : i \in RowsWithKey(groupedData[g])
        /\ \A g, h \in DOMAIN groupedData :
              (/\ groupedData[g].category = groupedData[h].category
               /\ groupedData[g].stimulusIDwithinCategory = groupedData[h].stimulusIDwithinCategory)
                  => g = h
        /\ \A g, h \in DOMAIN groupedData :
              g < h => FirstRow(groupedData[g]) < FirstRow(groupedData[h])
        /\ OptionsBefore([g \in DOMAIN groupedData |-> [option |-> groupedData[g].options]],
                         Len(groupedData)) = Len(flatData)

\* rows of two stimuli were grouped where a row of the first stimulus comes
\* after a row of the second: the first group holds two options
C20_Witness ==
    /\ loadStep = "grouped"
    /\ Len(flatData) = 3
    /\ Len(groupedData) = 2
    /\ RowsWithKey(groupedData[1]) = {1, 3}
    /\ Len(groupedData[1].options) = 2
    /\ groupedData[1].options[2] = rowOption(flatData[3])


\* the number of grouped stimuli the schedule is to retain: the first nitems
\* of them, all of them when nitems is not set
Retained ==
    IF nitems.t = "undefined" \/ nitems.v >= Len(groupedData) THEN Len(groupedData) ELSE nitems.v

\* C19: the scheduled list holds, for each of the first nitems grouped
\* stimuli (all when nitems is unset), exactly one trial per trial type of
\* the build and nothing else; its length is the number of retained stimuli
\* times the number of trial types.
C19_Schedule ==
    loadStep = "scheduled" =>
        /\ Len(stimuli) = Retained * Len(TrialTypes(variant))
        /\ \A g \in 1..Retained : \A t \in DOMAIN TrialTypes(variant) :
              Cardinality({ k \in DOMAIN stimuli :
                              stimuli[k] = WithType(groupedData[g], TrialTypes(variant)[t]) }) = 1
        /\ \A k \in DOMAIN stimuli :
              \E g \in 1..Retained : \E t \in DOMAIN TrialTypes(variant) :
                  stimuli[k] = WithType(groupedData[g], TrialTypes(variant)[t])


\* C21: within every grouped stimulus the option ids of its options are
\* pairwise distinct, whatever rows were loaded.
C21_DistinctOptionIds ==
    loadStep # "fetched" =>
        \A g \in DOMAIN groupedData :
            \A i, j \in DOMAIN groupedData[g].options :
                groupedData[g].options[i].option = groupedData[g].options[j].option => i = j


\* the text is well formed: it does not end in blank lines and every data
\* line has as many cells as the header
WellFormed ==
    /\ dropBlankEnd(csvString) = csvString
    /\ \A l \in DOMAIN csvString : Len(csvString[l]) = Len(csvString[1])

\* C24: for a well-formed text with H header columns and R data lines
\* parseCSV returns R rows, each with exactly the H header names as fields;
\* a field whose text is a numeral is stored as that number and every
\* other field as a string.
C24_ParseTyped ==
    (parsed.status # "none" /\ WellFormed) =>
        /\ parsed.status = "returned"
        /\ Len(parsed.rows) = Len(csvString) - 1
        /\ \A r \in DOMAIN parsed.rows :
              /\ Len(parsed.rows[r]) = Len(csvString[1])
              /\ \A c \in DOMAIN parsed.rows[r] :
                    /\ parsed.rows[r][c][1] = HeaderNames[c]
                    /\ IF csvString[r + 1][c].body.t = "number"
                       THEN parsed.rows[r][c][2] = csvString[r + 1][c].body
                       ELSE /\ parsed.rows[r][c][2].t = "string"
                            /\ parsed.rows[r][c][2].v = csvString[r + 1][c].body.v


\* the load of the file i fails: fetch rejects, the status is not OK or the
\* text is cut off in a line
LoadFails(i) ==
    \/ resources[i].response.rejected
    \/ ~resources[i].response.ok
    \/ resources[i].response.text # ResourceText(i, FALSE)

\* the rows the loads hand on, file by file from i on: those of the file
\* for a load that does not fail
RECURSIVE RowsLoaded(_)
RowsLoaded(i) ==
    IF i > Len(ResourceFiles) THEN <<>>
    ELSE (IF LoadFails(i) THEN <<>> ELSE ResourceRows(i)) \o RowsLoaded(i + 1)

\* C22: a resource whose fetch fails or whose text cannot be parsed gives
\* an empty row sequence; every load returns, and the rows of the other
\* resources are loaded, concatenated and grouped.
C22_FailedLoadIsEmpty ==
    /\ \A i \in DOMAIN resources :
          resources[i].settled =>
              resources[i].rows = IF LoadFails(i) THEN <<>> ELSE ResourceRows(i)
    /\ loadStep = "grouped" =>
          /\ flatData = RowsLoaded(1)
          /\ groupedData = reduceRows(<<>>, RowsLoaded(1), 1)
          /\ \A i \in DOMAIN resources :
                ~LoadFails(i) =>
                    \E g \in DOMAIN groupedData :
                        /\ <<groupedData[g].category, groupedData[g].stimulusIDwithinCategory>>
                              = ResourceKeys[i]
                        /\ Len(groupedData[g].options) = Len(ResourceRows(i))

\* one fetch was rejected, one had a status that is not OK, one text could
\* not be parsed, and the stimulus of the fourth file was grouped
C22_Witness ==
    /\ loadStep = "grouped"
    /\ resources[1].response.rejected
    /\ ~resources[2].response.rejected /\ ~resources[2].response.ok
    /\ resources[3].response.ok /\ LoadFails(3)
    /\ ~LoadFails(4)
    /\ Len(groupedData) = 1
    /\ Len(groupedData[1].options) = 2

\* C23: the loads return in any order, and the grouping starts only when
\* every load has returned: it never runs on the rows of a part of them.
C23_GroupAfterAll ==
    /\ [](loadStep = "grouped" =>
            /\ AllSettled(resources)
            /\ flatData = flat(resources, 1))
    /\ [][ (loadStep' # loadStep \/ groupedData' # groupedData \/ flatData' # flatData)
              => \A i \in DOMAIN resources : resources[i].settled ]_vars

\* the last file has been loaded with its rows before the first one
C23_Witness ==
    /\ loadStep = "fetching"
    /\ resources[Len(resources)].settled
    /\ resources[Len(resources)].rows # <<>>
    /\ ~resources[1].settled
    /\ ~LoadFails(1)


\* s is a prefix of t
IsPrefix(s, t) == Len(s) <= Len(t) /\ SubSeq(t, 1, Len(s)) = s

\* C25: Cancel in the confirmation dialog leads back to the list with the
\* working order as it was, no pick assigned and the trial not completed;
\* and no step of any trial type takes back or changes an assigned pick or
\* a stored result, or ends a trial before all its picks are made and its
\* result is stored.
C25_CancelOnlyReversal ==
    [][ /\ (dndTable.showConfirmation /\ ~dndTable'.showConfirmation
                /\ Len(blockData') = Len(blockData))
            => /\ dndTable'.mounted
               /\ dndTable'.items = dndTable.items
               /\ dndTable'.hasDragged = dndTable.hasDragged
               /\ table' = table
               /\ AllPicks([option |-> table'.data]) = {}
               /\ stimulusCounter' = stimulusCounter
               /\ nextCalls' = nextCalls
        /\ IsPrefix(blockData, blockData')
        /\ (table.mounted /\ table'.mounted /\ table'.key = table.key)
            => \A i \in DOMAIN table.data :
                  /\ table'.data[i].option = table.data[i].option
                  /\ IsPrefix(table.data[i].picked, table'.data[i].picked)
        /\ (table.mounted /\ ~(table'.mounted /\ table'.key = table.key))
            => /\ Len(blockData') = Len(blockData) + 1
               /\ Cardinality(AllPicks(blockData'[Len(blockData')])) = Len(table.data) ]_vars

\* the dialog stands open over a list nobody has dragged in
C25_Witness ==
    /\ dndTable.mounted
    /\ dndTable.showConfirmation
    /\ ~dndTable.hasDragged
    /\ dndTable.items = InitialItems(table.data)
    /\ Len(dndTable.items) > 1


\* the list after the dragged item is dropped on itself
DroppedOnItself(list) ==
    [list EXCEPT !.items = dragEndItems(@, list.active, list.active), !.active = 0]

\* C26: a gesture that picks an item up and drops it on itself is a no-op:
\* whenever a drag starts, dropping the item on itself right away gives
\* back the list as it was before the drag started (order, hasDragged,
\* dialog), so that a confirm finds what it would have found without it.
C26_DropOnSelfNoOp ==
    [][ (dndTable.mounted /\ dndTable.active = 0 /\ dndTable'.mounted /\ dndTable'.active # 0)
            => DroppedOnItself(dndTable') = dndTable ]_vars


(***************************************************************************)
(* EyewitnessTable with confirmNeeded: select a row, then confirm          *)
(***************************************************************************)

\* setSelectedRow(selectedRow === row.option ? null : row.option)
toggleSelected(selected, option) == IF selected = option THEN NullRow ELSE option

\* the argument of handleChoice in the Confirm button: (selectedRow ?? 1) - 1
confirmIndex(selected) == (IF selected = NullRow THEN 1 ELSE selected) - 1

\* the Confirm button can be pressed: it is on screen outside 'dnd' trials
\* and invisible while selectedRow === null
ConfirmVisible == table.version # "dnd" /\ selectedRow # NullRow

\* a click on a row's button that picks at once, as without confirmNeeded
selectRow_Choice(index) == handleChoice(index)

\* click on the button of the row at index: confirmNeeded, so the click only
\* sets selectedRow
selectRow(index) ==
    /\ Quiescent
    /\ table.mounted
    /\ ~table.isPauseScreen
    /\ table.version # "dnd"
    /\ index \in 1..Len(table.data)
    /\ ButtonRendered(table.data[index], table.version)
    /\ selectedRow' = toggleSelected(selectedRow, table.data[index].option)
    /\ UNCHANGED <<loadVars, variant, clock, stimuli, stimulusCounter, blockData,
                   blockMounted, blockEffectPending, nextCalls, table, tableEffectPending,
                   dndTable, instantiated>>

\* click on Confirm: handleChoice((selectedRow ?? 1) - 1); handleChoice
\* leaves selectedRow as it is
confirmChoice ==
    /\ Quiescent
    /\ table.mounted
    /\ ~table.isPauseScreen
    /\ ConfirmVisible
    /\ LET duration == clock - table.startedTimestamp
           index == confirmIndex(selectedRow) + 1
       IN table' = [table EXCEPT
                      !.data = setDataPicked(@, index, table.nSelection, duration),
                      !.nSelection = @ + 1,
                      !.isPauseScreen =
                          PauseAfterChoice(table.version, table.nSelection, Len(table.data)),
                      !.startedTimestamp = clock]
    /\ tableEffectPending' = TRUE
    /\ UNCHANGED <<pureVars, variant, clock, stimuli, stimulusCounter, blockData, blockMounted,
                   blockEffectPending, nextCalls, dndTable, instantiated>>

\* the completion effect of EyewitnessTable; the table that next mounts
\* (key = stimulusCounter) starts with selectedRow = null
ConfirmTableEffect ==
    /\ blockMounted
    /\ tableEffectPending
    /\ IF table.mounted /\ SelectionsDone(table.nSelection, Len(table.data))
       THEN /\ Advance(table.data)
            /\ selectedRow' = NullRow
       ELSE /\ tableEffectPending' = FALSE
            /\ UNCHANGED <<stimulusCounter, blockData, blockEffectPending, table,
                           dndTable, instantiated, selectedRow>>
    /\ UNCHANGED <<loadVars, variant, clock, stimuli, blockMounted, nextCalls>>

\* the block renders its tables with confirmNeeded = true
InitConfirm == Init

NextConfirm ==
    \/ Tick
    \/ ParentRerender
    \/ Begin
    \/ \E index \in 1..MaxOptions : selectRow(index)
    \/ confirmChoice
    \/ ConfirmTableEffect
    \/ BlockEffect
    \/ \E id \in OptionIds : handleDragStart(id)
    \/ \E over \in OptionIds : handleDragEnd(over)
    \/ handleConfirm
    \/ CancelConfirmation
    \/ ContinueConfirmation

SpecConfirm == InitConfirm /\ [][NextConfirm]_vars

\* the table on screen stays the same one over the step
SameTable == table.mounted /\ table'.mounted /\ table'.key = table.key

\* C27: with confirmNeeded a click on a row's button assigns no pick and
\* leaves nSelection as it is: it sets selectedRow to the row's option, or to
\* null when that option is the selected one; picks change only on Confirm,
\* while a row is selected
C27_SelectOnlyHighlights ==
    [][ SameTable =>
          /\ selectedRow' # selectedRow =>
                /\ table' = table
                /\ \E index \in DOMAIN table.data :
                      /\ ButtonRendered(table.data[index], table.version)
                      /\ selectedRow' = IF selectedRow = table.data[index].option
                                        THEN NullRow
                                        ELSE table.data[index].option
          /\ table'.data # table.data => selectedRow # NullRow /\ selectedRow' = selectedRow
      ]_vars

\* a row is selected and no pick is assigned
C27_Witness ==
    /\ table.mounted
    /\ ~table.isPauseScreen
    /\ Len(table.data) > 1
    /\ selectedRow = table.data[2].option
    /\ table.nSelection = 1
    /\ \A i \in DOMAIN table.data : table.data[i].picked = <<>>

\* C28: Confirm appends the pick {num: nSelection, time} to the row whose
\* option is selectedRow and to no other row, whatever the option ids
C28_ConfirmCommitsHighlighted ==
    [][ (SameTable /\ table'.nSelection # table.nSelection) =>
          /\ selectedRow # NullRow
          /\ \A i \in DOMAIN table.data :
                table'.data[i].picked =
                    IF table.data[i].option = selectedRow
                    THEN Append(table.data[i].picked,
                                [num |-> table.nSelection,
                                 time |-> clock - table.startedTimestamp])
                    ELSE table.data[i].picked
      ]_vars


\* C29: a result of a trial with a single option gives the option exactly
\* one pick, of rank 1, in every version ('consec', 'rank', 'dnd'); and a
\* table with a single option is never stuck: while it is on screen an effect
\* is left to run or a handler takes the next input of the trial.
C29_SingleOption ==
    /\ \A i \in DOMAIN blockData :
          Len(blockData[i].option) = 1 =>
              /\ Len(blockData[i].option[1].picked) = 1
              /\ blockData[i].option[1].picked[1].num = 1
    /\ (table.mounted /\ Len(table.data) = 1) =>
          IF Quiescent
          THEN ENABLED (Begin \/ handleChoice(1) \/ handleDragEnd(1) \/ handleConfirm
                            \/ ContinueConfirmation)
          ELSE ENABLED (TableEffect \/ BlockEffect)

\* both trials of a stimulus with a single option are complete
C29_Witness ==
    /\ Len(blockData) = 2
    /\ \A i \in DOMAIN blockData :
          /\ Len(blockData[i].option) = 1
          /\ Len(blockData[i].option[1].picked) = 1
    /\ blockData[1].version # blockData[2].version


(***************************************************************************)
(* part_000: EyewitnessBlock and EyewitnessTable of the first version      *)
(***************************************************************************)

\* the object {} : no field
EmptyObject == [x \in {} |-> x]

\* the value next passes to setData in part_000: setData([{}])
blockNextData000(data, stimulus, newData) == <<EmptyObject>>

\* a freshly mounted table of part_000: startedTimestamp is state, and
\* handleChoice keeps the startedTimestamp of the render that made it
MountTable000(k, now) ==
    [mounted |-> TRUE, key |-> k, version |-> stimuli[k + 1].type,
     data |-> InitialData(stimuli[k + 1].options),
     nSelection |-> 1, isPauseScreen |-> TRUE, startedTimestamp |-> now,
     closureTimestamp |-> now]

RenderTable000(k, now) ==
    IF k >= Len(stimuli) THEN NoTable ELSE MountTable000(k, now)

\* next of part_000: store [{}], move the cursor, mount the next table
Advance000(newData) ==
    /\ blockData' = blockNextData000(blockData, stimuli[stimulusCounter + 1], newData)
    /\ stimulusCounter' = stimulusCounter + 1
    /\ table' = RenderTable000(stimulusCounter + 1, clock)
    /\ instantiated' = IF table'.mounted THEN Append(instantiated, table'.key) ELSE instantiated
    /\ tableEffectPending' = table'.mounted
    /\ blockEffectPending' = TRUE

Init000 ==
    /\ variant = "part_000"
    /\ clock = 0
    /\ stimuli \in TrialLists(variant)
    /\ stimulusCounter = 0
    /\ blockData = <<>>
    /\ blockMounted = TRUE
    /\ blockEffectPending = TRUE
    /\ nextCalls = <<>>
    /\ table = RenderTable000(0, 0)
    /\ tableEffectPending = table.mounted
    /\ dndTable = NoDndTable
    /\ instantiated = IF table.mounted THEN <<table.key>> ELSE <<>>
    /\ NoPure

\* the timeline renders the block again: next is a new function; of the
\* effects only the block's depends on next
ParentRerender000 ==
    /\ Quiescent
    /\ blockEffectPending' = TRUE
    /\ UNCHANGED <<pureVars, variant, clock, stimuli, stimulusCounter, blockData, blockMounted,
                   nextCalls, table, tableEffectPending, dndTable, instantiated>>

\* handleChoice of part_000: push {num, time} on the row at index, with the
\* time counted from the startedTimestamp the callback holds; the render
\* that follows makes the callback anew; the isPauseScreen effect restarts
\* the timer when the pause screen comes back
handleChoice000(index) ==
    /\ Quiescent
    /\ table.mounted
    /\ ~table.isPauseScreen
    /\ index \in 1..Len(table.data)
    /\ ButtonRendered(table.data[index], table.version)
    /\ LET duration == clock - table.closureTimestamp
           pause == PauseAfterChoice(table.version, table.nSelection, Len(table.data))
       IN table' = [table EXCEPT
                      !.data = setDataPicked(@, index, table.nSelection, duration),
                      !.nSelection = @ + 1,
                      !.isPauseScreen = pause,
                      !.closureTimestamp = table.startedTimestamp,
                      !.startedTimestamp = IF pause THEN clock ELSE @]
    /\ tableEffectPending' = TRUE
    /\ UNCHANGED <<pureVars, variant, clock, stimuli, stimulusCounter, blockData, blockMounted,
                   blockEffectPending, nextCalls, dndTable, instantiated>>

\* the completion effect of the table: if (nSelection > data.length) next(data)
TableEffect000 ==
    /\ blockMounted
    /\ tableEffectPending
    /\ IF table.mounted /\ SelectionsDone(table.nSelection, Len(table.data))
       THEN Advance000(table.data)
       ELSE /\ tableEffectPending' = FALSE
            /\ UNCHANGED <<stimulusCounter, blockData, blockEffectPending, table, instantiated>>
    /\ UNCHANGED <<pureVars, variant, clock, stimuli, blockMounted, nextCalls, dndTable>>

Next000 ==
    \/ Tick
    \/ ParentRerender000
    \/ Begin
    \/ \E index \in 1..MaxOptions : handleChoice000(index)
    \/ TableEffect000
    \/ BlockEffect

Spec000 == Init000 /\ [][Next000]_vars

\* the fields of a result of the block
ResultFields == {"version", "category", "stimulusIdWithinCategory", "option"}

\* C30: in part_000 the sequence handed to next has one entry per scheduled
\* trial, in list order, each holding the trial's version, category,
\* stimulus id and the responses to its options.
C30_Part000Appends ==
    \A c \in DOMAIN nextCalls :
        /\ Len(nextCalls[c]) = Len(stimuli)
        /\ \A i \in DOMAIN stimuli :
              /\ DOMAIN nextCalls[c][i] = ResultFields
              /\ nextCalls[c][i].version = stimuli[i].type
              /\ nextCalls[c][i].category = stimuli[i].category
              /\ nextCalls[c][i].stimulusIdWithinCategory = stimuli[i].stimulusIDwithinCategory
              /\ Len(nextCalls[c][i].option) = Len(stimuli[i].options)
              /\ \A j \in DOMAIN stimuli[i].options :
                    /\ nextCalls[c][i].option[j].option = stimuli[i].options[j].option
                    /\ Len(nextCalls[c][i].option[j].picked) >= 1


\* C31: a table is mounted on its pause screen ('ready'); on the pause
\* screen no DNDTable is on screen and the only step that changes the trial
\* is the click that leaves the pause screen, which assigns no pick; a trial
\* completes (a result is stored) only from a table off its pause screen.
C31_ReadyGate ==
    /\ []((table.mounted /\ table.isPauseScreen) => ~dndTable.mounted)
    /\ [][ /\ (table'.mounted /\ (~table.mounted \/ table'.key # table.key))
                => (table'.isPauseScreen /\ AllPicks([option |-> table'.data]) = {})
           /\ (table.mounted /\ table.isPauseScreen
                    /\ <<table, dndTable, blockData, stimulusCounter>>'
                          # <<table, dndTable, blockData, stimulusCounter>>)
                => /\ table' = [table EXCEPT !.isPauseScreen = FALSE,
                                              !.startedTimestamp = clock]
                   /\ UNCHANGED <<blockData, stimulusCounter>>
           /\ blockData' # blockData => (table.mounted /\ ~table.isPauseScreen)
       ]_vars

\* a 'rank' trial is back on its pause screen after a pick
C31_Witness ==
    /\ table.mounted
    /\ table.isPauseScreen
    /\ table.nSelection = 2
    /\ Quiescent


\* the click that leaves the pause screen of the table on screen
LeavesPause == SameTable /\ table.isPauseScreen /\ ~table'.isPauseScreen

\* C32: in App.tsx and part_001 the time of a pick leaves out the time on
\* the pause screen.  Leaving the pause screen restarts the timer; the timer
\* of an active 'rank' table stands until the pick, whose time is the clock
\* minus that start; the timer of a DNDTable starts when the table leaves
\* the pause screen and stands, and every pick of the submitted result has
\* the one time: the clock at the accepted confirm minus that start.
C32_ElapsedSinceActive ==
    [][ /\ LeavesPause =>
              /\ table'.startedTimestamp = clock
              /\ table.version = "dnd" =>
                    (dndTable'.mounted /\ dndTable'.startedTimestamp = clock)
        /\ (SameTable /\ ~table.isPauseScreen /\ table.version = "rank") =>
              IF table'.data = table.data
              THEN table'.startedTimestamp = table.startedTimestamp
              ELSE \E i \in DOMAIN table.data :
                      table'.data[i].picked =
                          Append(table.data[i].picked,
                                 [num |-> table.nSelection,
                                  time |-> clock - table.startedTimestamp])
        /\ (dndTable.mounted /\ dndTable'.mounted) =>
              dndTable'.startedTimestamp = dndTable.startedTimestamp
        /\ (dndTable.mounted /\ blockData' # blockData) =>
              LET result == blockData'[Len(blockData')]
              IN \A p \in AllPicks(result) :
                    result.option[p[1]].picked[p[2]].time
                        = clock - dndTable.startedTimestamp
        /\ clock' >= clock
      ]_vars

\* a 'rank' pick made one tick after a pause screen that was left at tick 1
C32_Witness ==
    /\ table.mounted
    /\ table.version = "rank"
    /\ clock = 2
    /\ \E i \in DOMAIN table.data :
          /\ Len(table.data[i].picked) = 1
          /\ table.data[i].picked[1].time = 1
          /\ table.startedTimestamp = 2


\* C33: in part_000 leaving the pause screen restarts the timer, and the
\* time of a pick is the clock minus the start of the timer, i.e. minus
\* the time of the latest click that left the pause screen.
C33_Part000Elapsed ==
    [][ /\ LeavesPause => table'.startedTimestamp = clock
        /\ (SameTable /\ ~table.isPauseScreen /\ table'.data # table.data) =>
              \E i \in DOMAIN table.data :
                  table'.data[i].picked =
                      Append(table.data[i].picked,
                             [num |-> table.nSelection,
                              time |-> clock - table.startedTimestamp])
      ]_vars


\* C34: in a 'consec' trial with N options a pick goes to a row without a
\* pick and holds the number of picks made so far plus one; the table never
\* returns to its pause screen once it has left it; the result is stored by
\* the step that follows the N-th pick, and in it every option holds exactly
\* one pick and the ranks are 1..N.
C34_ConsecCompletes ==
    /\ [](/\ (table.mounted /\ table.version = "consec") =>
                /\ \A i \in DOMAIN table.data : Len(table.data[i].picked) <= 1
                /\ Cardinality(AllPicks([option |-> table.data])) = table.nSelection - 1
                /\ table.nSelection <= Len(table.data) + 1
                /\ table.nSelection = Len(table.data) + 1 => tableEffectPending
          /\ \A r \in Completed({"consec"}) :
                /\ \A j \in DOMAIN blockData[r].option :
                      Len(blockData[r].option[j].picked) = 1
                /\ { blockData[r].option[j].picked[1].num : j \in DOMAIN blockData[r].option }
                      = 1..Len(blockData[r].option))
    /\ [][ (SameTable /\ table.version = "consec") =>
              /\ ~table.isPauseScreen => ~table'.isPauseScreen
              /\ table'.data # table.data =>
                    \E i \in DOMAIN table.data :
                        /\ table.data[i].picked = <<>>
                        /\ table'.data = [table.data EXCEPT ![i].picked =
                              <<[num |-> Cardinality(AllPicks([option |-> table.data])) + 1,
                                 time |-> clock - table.startedTimestamp]>>]
         ]_vars
    /\ [][ (table.mounted /\ table.version = "consec" /\ blockData' # blockData) =>
              /\ Cardinality(AllPicks([option |-> table.data])) = Len(table.data)
              /\ blockData'[Len(blockData')].option = table.data
         ]_vars

\* a completed 'consec' trial in which the second option was picked first
C34_Witness ==
    \E r \in Completed({"consec"}) :
        /\ Len(blockData[r].option) = 2
        /\ blockData[r].option[2].picked[1].num = 1
        /\ blockData[r].option[1].picked[1].num = 2


\* C35: in a 'dnd' trial a drag that starts sets hasDragged and nothing
\* resets it; the confirmation dialog opens only while hasDragged is false,
\* whatever the order of the items, and a confirm submits without the dialog
\* only when hasDragged is true, also when the items are in their first order.
C35_HasDraggedGate ==
    /\ []((dndTable.mounted /\ dndTable.showConfirmation) => ~dndTable.hasDragged)
    /\ []((DndReady /\ dndTable.active = 0) => ENABLED handleConfirm)
    /\ [][ /\ (dndTable.mounted /\ dndTable'.mounted) =>
                 /\ dndTable.hasDragged => dndTable'.hasDragged
                 /\ (dndTable.active = 0 /\ dndTable'.active # 0) => dndTable'.hasDragged
                 /\ (~dndTable.showConfirmation /\ dndTable'.showConfirmation) =>
                       /\ ~dndTable.hasDragged
                       /\ dndTable'.items = dndTable.items
                       /\ UNCHANGED <<blockData, table>>
           /\ (dndTable.mounted /\ ~dndTable.showConfirmation /\ blockData' # blockData) =>
                 dndTable.hasDragged
         ]_vars

\* a drag has started and ended and the items are in their first order
C35_Witness ==
    /\ dndTable.mounted
    /\ dndTable.hasDragged
    /\ dndTable.active = 0
    /\ Len(dndTable.items) > 1
    /\ dndTable.items = InitialItems(table.data)


\* how often id stands in the sequence of ids
Occurrences(ids, id) == Cardinality({ i \in DOMAIN ids : ids[i] = id })

\* C36: the items of a DNDTable start as the option ids of the trial in the
\* order received; at every point they hold every option id of the trial as
\* often as the trial does and nothing else; a gesture that changes them
\* moves a single id and leaves the order of the other ids as it was.
C36_ItemsPermutation ==
    /\ [](dndTable.mounted =>
            /\ table.mounted
            /\ Len(dndTable.items) = Len(table.data)
            /\ \A id \in OptionIds :
                  Occurrences(dndTable.items, id)
                      = Occurrences([i \in DOMAIN table.data |-> table.data[i].option], id))
    /\ [][ /\ (~dndTable.mounted /\ dndTable'.mounted) =>
                 dndTable'.items = [i \in DOMAIN table.data |-> table.data[i].option]
           /\ (dndTable.mounted /\ dndTable'.mounted /\ dndTable'.items # dndTable.items) =>
                 \E id \in OptionIds :
                     SelectSeq(dndTable'.items, LAMBDA e : e # id)
                         = SelectSeq(dndTable.items, LAMBDA e : e # id)
         ]_vars

\* the items of a trial with more than one option stand in another order
\* than the one received
C36_Witness ==
    /\ dndTable.mounted
    /\ dndTable.active = 0
    /\ Len(dndTable.items) > 1
    /\ dndTable.items # InitialItems(table.data)


\* C37: in every state 0 <= stimulusCounter <= stimuli.length and the block
\* holds exactly stimulusCounter results; the i-th result has the type,
\* category and stimulus id of the i-th trial of the list and one response
\* per option of that stimulus, in the order of its options.
C37_SequencerInvariant ==
    /\ stimulusCounter \in 0..Len(stimuli)
    /\ Len(blockData) = stimulusCounter
    /\ \A i \in DOMAIN blockData :
          /\ blockData[i].version = stimuli[i].type
          /\ blockData[i].category = stimuli[i].category
          /\ blockData[i].stimulusIdWithinCategory = stimuli[i].stimulusIDwithinCategory
          /\ Len(blockData[i].option) = Len(stimuli[i].options)
          /\ \A j \in DOMAIN stimuli[i].options :
                /\ blockData[i].option[j].option = stimuli[i].options[j].option
                /\ blockData[i].option[j].eyewitness1 = stimuli[i].options[j].eyewitness1
                /\ blockData[i].option[j].eyewitness2 = stimuli[i].options[j].eyewitness2

\* both trials of a stimulus whose option ids descend are stored
C37_Witness ==
    /\ stimulusCounter = 2
    /\ Len(blockData) = 2
    /\ Len(blockData[2].option) = 2
    /\ blockData[2].option[1].option = 2
    /\ blockData[1].version # blockData[2].version


(***************************************************************************)
(* The block with a participant who keeps acting                           *)
(***************************************************************************)

\* React runs an effect that is left to run; the participant sooner or
\* later clicks the pause screen away, picks a row, and in a 'dnd' trial
\* clicks Confirm, and Continue when the dialog asks; a drag that has
\* started ends with a drop
Fairness ==
    /\ SF_vars(\E over \in OptionIds : handleDragEnd(over))
    /\ WF_vars(TableEffect)
    /\ WF_vars(BlockEffect)
    /\ SF_vars(Begin)
    /\ SF_vars(\E index \in 1..MaxOptions : handleChoice(index))
    /\ SF_vars(handleConfirm)
    /\ SF_vars(ContinueConfirmation)

\* the steps of the block while the clock stands: no guard reads the clock
\* but that of Tick, so the steps a trial can take are the same at every time
NextLive ==
    \/ ParentRerender
    \/ Begin
    \/ \E index \in 1..MaxOptions : handleChoice(index)
    \/ TableEffect
    \/ BlockEffect
    \/ \E id \in OptionIds : handleDragStart(id)
    \/ \E over \in OptionIds : handleDragEnd(over)
    \/ handleConfirm
    \/ CancelConfirmation
    \/ ContinueConfirmation

SpecLive == Init /\ [][NextLive]_vars /\ Fairness

\* C38: with a participant who keeps acting the block calls next, with one
\* result per trial of the list; a 'rank' or 'consec' trial is complete
\* exactly when as many picks are handled as it has options, whichever rows
\* are clicked.
C38_Terminates ==
    /\ <>(Len(nextCalls) = 1 /\ Len(nextCalls[1]) = Len(stimuli))
    /\ [][ (table.mounted /\ table.version # "dnd" /\ blockData' # blockData) =>
              /\ table.nSelection = Len(table.data) + 1
              /\ Cardinality(AllPicks([option |-> table.data])) = Len(table.data)
         ]_vars
    /\ []((table.mounted /\ table.version # "dnd"
              /\ Cardinality(AllPicks([option |-> table.data])) = Len(table.data))
            => tableEffectPending)

\* the block has called next after two trials
C38_Witness ==
    /\ Len(nextCalls) = 1
    /\ Len(nextCalls[1]) = 2
    /\ ~blockMounted
    /\ \E i \in 1..2 : Len(nextCalls[1][i].option) = 2


\* the ranks whose flag column is true on the line of option j of result t
FlaggedRanks(t, j) ==
    LET line == LineOf(t, j)
        header == TrialTable[1]
    IN { K \in 1..RankSlots :
           line[CHOOSE c \in DOMAIN header : header[c] = "pickedAsNr" \o ToString(K)] = "true" }

\* C39: for an exported result of at most four options the picks of every
\* option can be read back from its line: the option holds one pick per
\* flagged rank and no other, in ascending rank, and the time of the pick of
\* rank K is the number written in timePickedNrK.
C39_ExportLossless ==
    exOutput.status = "returned" =>
        LET trials == trialsOf(exInput)
            header == TrialTable[1]
            timeColumn == [K \in 1..RankSlots |->
                             CHOOSE c \in DOMAIN header :
                                header[c] = "timePickedNr" \o ToString(K)]
        IN \A t \in DOMAIN trials :
              Len(trials[t].option) <= RankSlots =>
                  \A j \in DOMAIN trials[t].option :
                      LET picked == trials[t].option[j].picked
                          line == LineOf(t, j)
                          flagged == FlaggedRanks(t, j)
                      IN /\ Len(picked) = Cardinality(flagged)
                         /\ \A i \in DOMAIN picked :
                               /\ picked[i].num \in flagged
                               /\ line[timeColumn[picked[i].num]] = ToString(picked[i].time)
                               /\ \A h \in 1..(i - 1) : picked[h].num < picked[i].num
                         /\ \A K \in (1..RankSlots) \ flagged : line[timeColumn[K]] = ""

\* an exported 'rank' result in which one option holds two picks
C39_Witness ==
    /\ exOutput.status = "returned"
    /\ \E t \in DOMAIN trialsOf(exInput) :
          /\ trialsOf(exInput)[t].version = "rank"
          /\ Len(trialsOf(exInput)[t].option) = 2
          /\ \E j \in 1..2 :
                /\ Len(trialsOf(exInput)[t].option[j].picked) = 2
                /\ FlaggedRanks(t, j) = {1, 2}


\* the response for the file i is OK and its text holds a data line with
\* fewer fields than the header, next to a data line with all its fields
HasShortLine(i) ==
    /\ ~resources[i].response.rejected
    /\ resources[i].response.ok
    /\ \E l \in 2..Len(resources[i].response.text) :
          Len(resources[i].response.text[l]) < Len(resources[i].response.text[1])
    /\ \E l \in 2..Len(resources[i].response.text) :
          Len(resources[i].response.text[l]) = Len(resources[i].response.text[1])

\* the groups of the stimulus the file i lists
GroupsOf(i) ==
    { g \in DOMAIN groupedData :
        <<groupedData[g].category, groupedData[g].stimulusIDwithinCategory>> = ResourceKeys[i] }

\* C40: a file with a data line shorter than the header gives no row at
\* all, also not those of its complete lines; the files whose texts are
\* whole give their rows, and the grouping holds their stimuli only.
C40_ShortLineDropsResource ==
    /\ \A i \in DOMAIN resources :
          resources[i].settled =>
              /\ HasShortLine(i) => resources[i].rows = <<>>
              /\ (resources[i].response.ok /\ resources[i].response.text = ResourceText(i, FALSE))
                    => resources[i].rows = ResourceRows(i)
    /\ loadStep = "grouped" =>
          \A i \in DOMAIN resources :
              /\ HasShortLine(i) => GroupsOf(i) = {}
              /\ (resources[i].response.ok /\ resources[i].response.text = ResourceText(i, FALSE))
                    => \E g \in GroupsOf(i) :
                          Len(groupedData[g].options) = Len(ResourceRows(i))

\* the first file has a short line, the other files are whole
C40_Witness ==
    /\ loadStep = "grouped"
    /\ HasShortLine(1)
    /\ \A i \in 2..Len(resources) : resources[i].response.ok /\ ~HasShortLine(i)
    /\ GroupsOf(1) = {}
    /\ Len(groupedData) = Len(resources) - 1

====
